---- MODULE Spec2Model ----
(***************************************************************************)
(* Model of the bill-of-materials engine of xero-invoice-orderer:          *)
(*   - ResolveInvoiceBOM (internal/service, depth-first resolver),         *)
(*   - BuildPerAssemblyBOM / AggregateLeafTotals (per-assembly view and    *)
(*     leaf totals), and the leaf walk of getInvoiceHandler,               *)
(*   - GroupShoppingItemsByContact and createPurchaseOrdersHandler (the    *)
(*     purchase-order batch run over the shopping_list table).             *)
(*                                                                         *)
(* float64 quantities are modelled as rationals <<n, d>> (d > 0, lowest    *)
(* terms) that are binary floating-point numbers with a significand of     *)
(* MantissaBits bits: every multiplication, addition and division rounds   *)
(* its exact result to the nearest such number, ties to even, as IEEE 754  *)
(* does with 53 bits.  Exponent range is not modelled (no overflow or      *)
(* underflow).  Division by zero yields the non-finite values <<s, 0>> as  *)
(* in Go.  SpecBOM and SpecQty draw quantities on which every operation is *)
(* exact (integers and halves); SpecFrac draws decimal quantities that are *)
(* not binary fractions, so that sums round.                               *)
(***************************************************************************)
EXTENDS Integers, Sequences, FiniteSets, TLC

(***************************************************************************)
(* Arithmetic standing for float64                                         *)
(***************************************************************************)
Abs(x) == IF x < 0 THEN -x ELSE x

Sign(x) == IF x < 0 THEN -1 ELSE IF x > 0 THEN 1 ELSE 0

RECURSIVE Gcd(_, _)
Gcd(a, b) == IF b = 0 THEN a ELSE Gcd(b, a % b)

\* <<n, d>> in lowest terms; d = 0 stands for +Inf / -Inf / NaN (n = 1, -1, 0)
Norm(n, d) ==
    IF d = 0 THEN <<Sign(n), 0>>
    ELSE LET g == Gcd(Abs(n), Abs(d))
             s == IF d < 0 THEN -1 ELSE 1
         IN  <<(s * n) \div g, (s * d) \div g>>

\* bits of the significand (53 in float64)
MantissaBits == 14

RECURSIVE Pow2(_)
Pow2(k) == IF k = 0 THEN 1 ELSE 2 * Pow2(k - 1)

\* num/den scaled by a power of two into [2^(MantissaBits-1), 2^MantissaBits),
\* rounded to an integer (ties to even): <<significand, exponent>>
RECURSIVE FlScale(_, _, _)
FlScale(num, den, e) ==
    IF num \div den >= Pow2(MantissaBits)
    THEN (IF num % 2 = 0 THEN FlScale(num \div 2, den, e + 1)
                         ELSE FlScale(num, 2 * den, e + 1))
    ELSE IF num \div den < Pow2(MantissaBits - 1)
    THEN (IF den % 2 = 0 THEN FlScale(num, den \div 2, e - 1)
                         ELSE FlScale(2 * num, den, e - 1))
    ELSE LET m == num \div den
             r == num % den
             up == 2 * r > den \/ (2 * r = den /\ m % 2 = 1)
         IN  <<IF up THEN m + 1 ELSE m, e>>

\* the float nearest to the rational x (round to nearest, ties to even)
Fl(x) ==
    IF x[2] = 0 \/ x[1] = 0 THEN x
    ELSE IF x[2] = 1 /\ Abs(x[1]) < Pow2(MantissaBits) THEN x
    ELSE LET me == FlScale(Abs(x[1]), x[2], 0)
             m == Sign(x[1]) * me[1]
         IN  IF me[2] >= 0 THEN Norm(m * Pow2(me[2]), 1)
                           ELSE Norm(m, Pow2(-me[2]))

\* float64(n) for an int n
R(n) == Fl(<<n, 1>>)

Half == <<1, 2>>

RMul(a, b) == Fl(Norm(a[1] * b[1], a[2] * b[2]))

RAdd(a, b) ==
    IF a[2] = 0 \/ b[2] = 0
    THEN (IF a[2] = 0 /\ b[2] = 0 /\ a[1] # b[1] THEN <<0, 0>>
          ELSE IF a[2] = 0 THEN a ELSE b)
    ELSE LET g == Gcd(a[2], b[2])
         IN  Fl(Norm(a[1] * (b[2] \div g) + b[1] * (a[2] \div g),
                     a[2] * (b[2] \div g)))

\* Go float64 division: x/0 is +-Inf, 0/0 is NaN
RDiv(a, b) == Fl(Norm(a[1] * b[2], a[2] * b[1]))

RPos(a) == a[1] > 0 /\ a # <<0, 0>>

\* math.Round: nearest integer, halves away from zero
RRound(a) ==
    IF a[2] = 0 THEN a
    ELSE LET m == (2 * Abs(a[1]) + a[2]) \div (2 * a[2])
         IN  R(Sign(a[1]) * m)

(***************************************************************************)
(* State                                                                   *)
(***************************************************************************)
VARIABLES
    xeroItems,      \* item codes that exist in the item catalogue (Xero)
    itemsContacts,  \* table items_contacts: item id -> contact ids, in row order
    parentChild,    \* table parent_child: parent id -> <<child id, quantity>> rows
    down,           \* collaborator lookups that fail (infrastructure errors)
    lines,          \* invoice lines fetched by getInvoiceHandler
    unnamed,        \* catalogue items whose Name is empty
    revision,       \* which ResolveInvoiceBOM runs: "xero" (item catalogue in
                    \* Xero) or "parts" (the one over the parts table)
    roots,          \* argument of ResolveInvoiceBOM: sequence of RootItem
    maxDepth,       \* argument of ResolveInvoiceBOM
    pc,             \* position of the invoice pipeline
    bom,            \* trees returned by ResolveInvoiceBOM
    errMsg,         \* business message returned by ResolveInvoiceBOM
    err,            \* infrastructure error returned by ResolveInvoiceBOM
    lookups,        \* collaborator lookups made by the call, in order
    perAssy,        \* result of BuildPerAssemblyBOM(bom, roots)
    leafTotals,     \* result of AggregateLeafTotals(perAssy)
    directTotals,   \* result of AggregateLeafTotals(bom)
    walkTotals,     \* leaf totals of getInvoiceHandler's walk over bom
    viewPerAssy,    \* per-assembly view built by getInvoiceHandler's own norm
    shoppingList,   \* table shopping_list: list_id (position) -> record
    purchaseOrders, \* purchase orders created in Xero
    markCalls,      \* calls of MarkShoppingListOrdered
    run,            \* createPurchaseOrdersHandler: local state of each request
    calls,          \* ResolveInvoiceBOM step by step: local state of each call
    oauthStates,    \* table oauth_states: state -> row
    stored,         \* how many CreateOAuthState calls have stored each state
    clock,          \* time.Now().Unix()
    consume,        \* ConsumeOAuthState: local state of each call
    finds           \* how many calls found each state since it was last stored

bomVars == <<roots, maxDepth, pc, bom, errMsg, err, lookups, perAssy, leafTotals,
            directTotals, walkTotals, viewPerAssy>>

dbVars == <<xeroItems, itemsContacts, parentChild, down, revision, lines, unnamed>>

groupVars == <<shoppingList, purchaseOrders, markCalls, run>>

oauthVars == <<oauthStates, stored, clock, consume, finds>>

vars == <<dbVars, bomVars, groupVars, calls, oauthVars>>

Items == {"A", "B", "C"}

Contacts == {"C-AAA", "C-BBB"}

\* display name the catalogue holds for an item code
ItemName(id) == "name-" \o id

(***************************************************************************)
(* Messages of ResolveInvoiceBOM.  A message is kept as the format string  *)
(* that produced it and the item id formatted into it.                     *)
(***************************************************************************)
NoMsg == [fmt |-> "", id |-> ""]

MsgMaxDepth(id) ==
    [fmt |-> "max depth exceeded while resolving item %s (possible circular reference)",
     id |-> id]

MsgCircular(id) ==
    [fmt |-> "circular parent/child relationship detected at %s", id |-> id]

MsgNotFound(id) == [fmt |-> "item %s not found in Xero", id |-> id]

MsgNoSource(id) ==
    [fmt |-> "item %s has no supplier contact and no subcomponents", id |-> id]

MsgUnexpected == [fmt |-> "unexpected resolve failure", id |-> ""]

\* the messages of the resolver over the parts table
MsgPartMaxDepth(id) ==
    [fmt |-> "max depth exceeded while resolving part %s (possible circular reference)",
     id |-> id]

MsgPartNotFound(id) == [fmt |-> "part %s not found in parts table", id |-> id]

MsgPartNoSource(id) ==
    [fmt |-> "part %s has no supplier and no subcomponents", id |-> id]

maxDepthMsg(id) == IF revision = "parts" THEN MsgPartMaxDepth(id) ELSE MsgMaxDepth(id)

notFoundMsg(id) == IF revision = "parts" THEN MsgPartNotFound(id) ELSE MsgNotFound(id)

noSourceMsg(id) == IF revision = "parts" THEN MsgPartNoSource(id) ELSE MsgNoSource(id)

\* strings.Contains(msg, "circular"): the format strings in which the word
\* occurs (the item codes of the model do not contain it)
ContainsCircular(msg) ==
    msg.fmt \in {"max depth exceeded while resolving item %s (possible circular reference)",
                 "max depth exceeded while resolving part %s (possible circular reference)",
                 "circular parent/child relationship detected at %s"}

(***************************************************************************)
(* Collaborator lookups of ResolveInvoiceBOM                               *)
(***************************************************************************)
NoErr == "nil"

LookupErr(kind, id) == "lookup failed: " \o kind \o " " \o id

getItem(id) ==
    IF <<"getItem", id>> \in down
    THEN [name |-> "", exists |-> FALSE, err |-> LookupErr("getItem", id)]
    ELSE IF id \in xeroItems
         THEN [name |-> IF id \in unnamed THEN "" ELSE ItemName(id),
               exists |-> TRUE, err |-> NoErr]
         ELSE [name |-> "", exists |-> FALSE, err |-> NoErr]

\* getPart of the resolver over the parts table: SELECT name FROM parts WHERE
\* part_id = $1; every error of the Scan, a failed query included, is returned
\* as "does not exist" with a nil error
getPart(id) ==
    IF <<"getItem", id>> \in down
    THEN [name |-> "", exists |-> FALSE, err |-> NoErr]
    ELSE IF id \in xeroItems
         THEN [name |-> ItemName(id), exists |-> TRUE, err |-> NoErr]
         ELSE [name |-> "", exists |-> FALSE, err |-> NoErr]

\* the item-existence lookup of the resolver that runs
itemLookup(id) == IF revision = "parts" THEN getPart(id) ELSE getItem(id)

\* a mapping test that takes an item with components for an assembly
hasContactNoEdges(id) ==
    IF <<"hasContact", id>> \in down
    THEN [ok |-> FALSE, err |-> LookupErr("hasContact", id)]
    ELSE [ok |-> itemsContacts[id] # <<>> /\ parentChild[id] = <<>>, err |-> NoErr]

hasContact(id) ==
    IF <<"hasContact", id>> \in down
    THEN [ok |-> FALSE, err |-> LookupErr("hasContact", id)]
    ELSE [ok |-> Len(itemsContacts[id]) > 0, err |-> NoErr]

getChildren(id) ==
    IF <<"getChildren", id>> \in down
    THEN [pairs |-> <<>>, err |-> LookupErr("getChildren", id)]
    ELSE [pairs |-> parentChild[id], err |-> NoErr]

(***************************************************************************)
(* ResolveInvoiceBOM                                                       *)
(***************************************************************************)
NoNode == [PartID |-> "", Name |-> "", Quantity |-> R(0), IsAssembly |-> FALSE,
           Children |-> <<>>]

BOMNode(id, name, qty, isAssembly, children) ==
    [PartID |-> id, Name |-> name, Quantity |-> qty, IsAssembly |-> isAssembly,
     Children |-> children]

\* return of dfs: (BOMNode, message, ok, error), with the visiting map and the
\* lookups made so far as the call leaves them
Ret(node, msg, ok, e, visiting, log) ==
    [node |-> node, errMsg |-> msg, ok |-> ok, err |-> e,
     visiting |-> visiting, log |-> log]

\* a bound that is reached one level early
depthExceededAt(depth, mx) == depth >= mx

\* a bound that lets one more level through
depthExceededLate(depth, mx) == depth > mx + 1

\* if depth > maxDepth
depthExceeded(depth, mx) == depth > mx

\* if visiting[k]
onPath(visiting, id) == id \in visiting

\* a resolver that hands the edge quantity to the child without the parent's
childQuantityPerUnit(qty, childQty) == R(childQty)

\* qty*childQty, the quantity handed to a child
childQuantity(qty, childQty) == RMul(qty, R(childQty))

RECURSIVE dfs(_, _, _, _, _, _, _)
RECURSIVE dfsChildren(_, _, _, _, _, _, _, _)

\* a loop that leaves out a child whose expansion reported a message
childReturnedSkipFailed(children, i, node, qty, depth, mx, r) ==
    IF r.err # NoErr
    THEN Ret(NoNode, NoMsg, FALSE, r.err, r.visiting, r.log)
    ELSE dfsChildren(children, i + 1,
                     IF r.ok THEN [node EXCEPT !.Children = Append(@, r.node)]
                     ELSE node,
                     qty, depth, mx, r.visiting, r.log)

\* the loop body after the call of dfs for child i returned r
childReturned(children, i, node, qty, depth, mx, r) ==
    IF r.err # NoErr
    THEN Ret(NoNode, NoMsg, FALSE, r.err, r.visiting, r.log)
    ELSE IF r.errMsg # NoMsg
    THEN Ret(NoNode, r.errMsg, FALSE, NoErr, r.visiting, r.log)
    ELSE IF ~r.ok
    THEN Ret(NoNode, MsgUnexpected, FALSE, NoErr, r.visiting, r.log)
    ELSE dfsChildren(children, i + 1,
                     [node EXCEPT !.Children = Append(@, r.node)],
                     qty, depth, mx, r.visiting, r.log)

\* the loop over the component edges of an assembly node; i is the next edge,
\* children[i] = <<childID, childQty>>
dfsChildren(children, i, node, qty, depth, mx, visiting, log) ==
    IF i > Len(children)
    THEN Ret(node, NoMsg, TRUE, NoErr, visiting, log)
    ELSE childReturned(children, i, node, qty, depth, mx,
                       dfs(children[i][1], "", childQuantity(qty, children[i][2]),
                           depth + 1, mx, visiting, log))

\* the part of dfs that runs between visiting[k] = true and the deferred delete
dfsBody(id, displayName, qty, depth, mx, visiting, log) ==
    LET it == itemLookup(id)
        log1 == Append(log, <<"getItem", id>>)
    IN  IF it.err # NoErr
        THEN Ret(NoNode, NoMsg, FALSE, it.err, visiting, log1)
        ELSE IF ~it.exists
        THEN Ret(NoNode, notFoundMsg(id), FALSE, NoErr, visiting, log1)
        ELSE
        LET name == IF displayName = "" THEN it.name ELSE displayName
            okContact == hasContact(id)
            log2 == Append(log1, <<"hasContact", id>>)
        IN  IF okContact.err # NoErr
            THEN Ret(NoNode, NoMsg, FALSE, okContact.err, visiting, log2)
            ELSE IF okContact.ok
            THEN Ret(BOMNode(id, name, qty, FALSE, <<>>), NoMsg, TRUE, NoErr,
                     visiting, log2)
            ELSE
            LET children == getChildren(id)
                log3 == Append(log2, <<"getChildren", id>>)
            IN  IF children.err # NoErr
                THEN Ret(NoNode, NoMsg, FALSE, children.err, visiting, log3)
                ELSE IF Len(children.pairs) = 0
                THEN Ret(NoNode, noSourceMsg(id), FALSE, NoErr, visiting, log3)
                ELSE dfsChildren(children.pairs, 1,
                                 BOMNode(id, name, qty, TRUE, <<>>),
                                 qty, depth, mx, visiting, log3)

\* a resolver that leaves the item in the visiting map when the frame returns
dfsKeepVisiting(id, displayName, qty, depth, mx, visiting, log) ==
    IF depthExceeded(depth, mx)
    THEN Ret(NoNode, maxDepthMsg(id), FALSE, NoErr, visiting, log)
    ELSE IF onPath(visiting, id)
    THEN Ret(NoNode, MsgCircular(id), FALSE, NoErr, visiting, log)
    ELSE dfsBody(id, displayName, qty, depth, mx, visiting \cup {id}, log)

\* a resolver that looks the item up before the depth bound and the cycle guard
dfsExistsFirst(id, displayName, qty, depth, mx, visiting, log) ==
    IF ~itemLookup(id).exists /\ itemLookup(id).err = NoErr
    THEN Ret(NoNode, notFoundMsg(id), FALSE, NoErr, visiting,
             Append(log, <<"getItem", id>>))
    ELSE IF depthExceeded(depth, mx)
    THEN Ret(NoNode, maxDepthMsg(id), FALSE, NoErr, visiting, log)
    ELSE IF onPath(visiting, id)
    THEN Ret(NoNode, MsgCircular(id), FALSE, NoErr, visiting, log)
    ELSE [dfsBody(id, displayName, qty, depth, mx, visiting \cup {id}, log)
            EXCEPT !.visiting = @ \ {id}]

dfs(id, displayName, qty, depth, mx, visiting, log) ==
    IF depthExceeded(depth, mx)
    THEN Ret(NoNode, maxDepthMsg(id), FALSE, NoErr, visiting, log)
    ELSE IF onPath(visiting, id)
    THEN Ret(NoNode, MsgCircular(id), FALSE, NoErr, visiting, log)
    ELSE LET r == dfsBody(id, displayName, qty, depth, mx, visiting \cup {id}, log)
         IN  \* defer func() { delete(visiting, k) }()
             [r EXCEPT !.visiting = @ \ {id}]

\* the loop over the roots; i is the next root, out the trees so far
RECURSIVE resolveRoots(_, _, _, _, _, _)

\* a loop that returns the trees resolved so far together with the message
rootReturnedPartial(rts, i, mx, out, r) ==
    IF r.err # NoErr
    THEN [bom |-> <<>>, errMsg |-> NoMsg, err |-> r.err,
          visiting |-> r.visiting, log |-> r.log]
    ELSE IF r.errMsg # NoMsg \/ ~r.ok
    THEN [bom |-> out, errMsg |-> r.errMsg, err |-> NoErr,
          visiting |-> r.visiting, log |-> r.log]
    ELSE resolveRoots(rts, i + 1, mx, Append(out, r.node), r.visiting, r.log)

\* the loop body after the call of dfs for root i returned r
rootReturned(rts, i, mx, out, r) ==
    IF r.err # NoErr
    THEN [bom |-> <<>>, errMsg |-> NoMsg, err |-> r.err,
          visiting |-> r.visiting, log |-> r.log]
    ELSE IF r.errMsg # NoMsg \/ ~r.ok
    THEN [bom |-> <<>>, errMsg |-> r.errMsg, err |-> NoErr,
          visiting |-> r.visiting, log |-> r.log]
    ELSE resolveRoots(rts, i + 1, mx, Append(out, r.node), r.visiting, r.log)

resolveRoots(rts, i, mx, out, visiting, log) ==
    IF i > Len(rts)
    THEN [bom |-> out, errMsg |-> NoMsg, err |-> NoErr, visiting |-> visiting,
          log |-> log]
    ELSE rootReturned(rts, i, mx, out,
                      dfs(rts[i].PartID, rts[i].Name, rts[i].Quantity, 1, mx,
                          visiting, log))

ResolveInvoiceBOM(rts, mx) == resolveRoots(rts, 1, mx, <<>>, {}, <<>>)

(***************************************************************************)
(* getInvoiceHandler: roots from invoice lines                             *)
(***************************************************************************)
\* roots = append(roots, RootItem{PartID: li.ItemCode, Name: li.Name,
\* Quantity: li.Quantity}) for each line
rootsOfLines(ls) ==
    [k \in 1..Len(ls) |->
        [PartID |-> ls[k].ItemCode, Name |-> ls[k].Name, Quantity |-> ls[k].Quantity]]

\* if ln.ItemCode == "" || ln.Quantity <= 0 { continue }
skipLine(ln) == ln.ItemCode = "" \/ ~RPos(ln.Quantity)

validLines(ls) == SelectSeq(ls, LAMBDA ln : ~skipLine(ln))

(***************************************************************************)
(* BuildPerAssemblyBOM                                                     *)
(***************************************************************************)
Min(a, b) == IF a < b THEN a ELSE b

\* a guard that only keeps clear of a zero divisor
perAssyQtyNonZero(nodeQty, parentEffective) ==
    IF parentEffective # R(0) THEN RDiv(nodeQty, parentEffective) ELSE nodeQty

\* a norm that leaves every quantity as it is
perAssyQtyRaw(nodeQty, parentEffective) == nodeQty

\* perAssyQty of norm: node.Quantity / parentEffective when parentEffective > 0
perAssyQty(nodeQty, parentEffective) ==
    IF RPos(parentEffective) THEN RDiv(nodeQty, parentEffective) ELSE nodeQty

RECURSIVE norm(_, _)

\* a norm that keeps dividing by the quantity it was given (the root's) at
\* every level below
normByRoot(node, parentEffective) ==
    BOMNode(node.PartID, node.Name, perAssyQty(node.Quantity, parentEffective),
            node.IsAssembly,
            [i \in 1..Len(node.Children) |-> norm(node.Children[i], parentEffective)])

norm(node, parentEffective) ==
    BOMNode(node.PartID, node.Name, perAssyQty(node.Quantity, parentEffective),
            node.IsAssembly,
            [i \in 1..Len(node.Children) |-> norm(node.Children[i], node.Quantity)])

BuildPerAssemblyBOM(b, rts) ==
    [i \in 1..Min(Len(b), Len(rts)) |->
        LET rootEff == b[i].Quantity
        IN  BOMNode(b[i].PartID, b[i].Name, rts[i].Quantity, b[i].IsAssembly,
                    [j \in 1..Len(b[i].Children) |-> norm(b[i].Children[j], rootEff)])]

\* norm of getInvoiceHandler: q = node.Quantity / rootQty unless the node is a
\* root or rootQty is not positive
RECURSIVE handlerNorm(_, _, _)
handlerNorm(node, rootQty, isRoot) ==
    BOMNode(node.PartID, node.Name,
            IF ~isRoot /\ RPos(rootQty) THEN RDiv(node.Quantity, rootQty)
            ELSE node.Quantity,
            node.IsAssembly,
            [i \in 1..Len(node.Children) |-> handlerNorm(node.Children[i], rootQty, FALSE)])

\* perAssy = append(perAssy, norm(root, roots[i].Quantity, true)) for each tree
handlerPerAssy(b, rts) ==
    [i \in 1..Len(b) |-> handlerNorm(b[i], rts[i].Quantity, TRUE)]

(***************************************************************************)
(* AggregateLeafTotals                                                     *)
(***************************************************************************)
LeafTotal(id, name, qty) == [PartID |-> id, Name |-> name, Quantity |-> qty]

\* the map agg: its keys are DOMAIN agg
EmptyAgg == [k \in {} |-> LeafTotal("", "", R(0))]

\* a walk that does not multiply down through assemblies
nextMulKeep(mul, nodeQty) == mul

\* nextMul of multWalk for an assembly node
nextMul(mul, nodeQty) == IF RPos(nodeQty) THEN RMul(mul, nodeQty) ELSE mul

\* a leaf branch that overwrites the running total (= instead of +=)
addLeafOverwrite(agg, node, total) ==
    [k \in DOMAIN agg \cup {node.PartID} |->
        IF k = node.PartID
        THEN LeafTotal(node.PartID,
                       IF k \in DOMAIN agg THEN agg[k].Name ELSE node.Name, total)
        ELSE agg[k]]

\* the leaf branch: lt.Quantity += total, or a new entry under node.PartID
addLeaf(agg, node, total) ==
    IF node.PartID \in DOMAIN agg
    THEN [agg EXCEPT ![node.PartID].Quantity = RAdd(@, total)]
    ELSE [k \in DOMAIN agg \cup {node.PartID} |->
            IF k = node.PartID THEN LeafTotal(node.PartID, node.Name, total)
            ELSE agg[k]]

\* a leaf total that ignores the multiplier carried down
leafTotalOwn(mul, nodeQty) == nodeQty

\* total := mul * node.Quantity of multWalk for a leaf node
leafTotal(mul, nodeQty) == RMul(mul, nodeQty)

RECURSIVE multWalk(_, _, _)
RECURSIVE multWalkChildren(_, _, _, _)

multWalkChildren(children, i, mul, agg) ==
    IF i > Len(children) THEN agg
    ELSE multWalkChildren(children, i + 1, mul, multWalk(children[i], mul, agg))

multWalk(node, mul, agg) ==
    IF node.IsAssembly
    THEN multWalkChildren(node.Children, 1, nextMul(mul, node.Quantity), agg)
    ELSE addLeaf(agg, node, leafTotal(mul, node.Quantity))

RECURSIVE multWalkRoots(_, _, _)
multWalkRoots(trees, i, agg) ==
    IF i > Len(trees) THEN agg
    ELSE multWalkRoots(trees, i + 1, multWalk(trees[i], R(1), agg))

\* v.Quantity = math.Round(v.Quantity) for every value of the map; the slice is
\* built in map-iteration order, so the result is kept as the set of its entries
roundTotals(agg) ==
    {[agg[k] EXCEPT !.Quantity = RRound(@)] : k \in DOMAIN agg}

AggregateLeafTotals(trees) == roundTotals(multWalkRoots(trees, 1, EmptyAgg))

(***************************************************************************)
(* The leaf walk of getInvoiceHandler (step 4): sums the effective         *)
(* quantities of the leaves of the resolved trees                          *)
(***************************************************************************)
RECURSIVE walk(_, _)
RECURSIVE walkChildren(_, _, _)

walkChildren(children, i, agg) ==
    IF i > Len(children) THEN agg
    ELSE walkChildren(children, i + 1, walk(children[i], agg))

walk(node, agg) ==
    IF ~node.IsAssembly
    THEN addLeaf(agg, node, node.Quantity)
    ELSE walkChildren(node.Children, 1, agg)

handlerLeafTotals(trees) == roundTotals(walkChildren(trees, 1, EmptyAgg))

(***************************************************************************)
(* shopping_list and GroupShoppingItemsByContact                           *)
(***************************************************************************)
\* a row of shopping_list; its list_id is its position in shoppingList
ShoppingRecord(itemID, quantity, ordered) ==
    [ItemID |-> itemID, Quantity |-> quantity, ordered |-> ordered]

ShoppingRow(listID, itemID, quantity) ==
    [ListID |-> listID, ItemID |-> itemID, Quantity |-> quantity]

ContactItem(itemID, quantity, listIDs) ==
    [ItemID |-> itemID, Quantity |-> quantity, ListIDs |-> listIDs]

\* the query without its WHERE clause
GetAllShoppingRows(sl) ==
    LET n == Len(sl)
        orders == {f \in [1..n -> 1..n] : \A a, b \in 1..n : a # b => f[a] # f[b]}
    IN  {[k \in 1..n |-> ShoppingRow(f[k], sl[f[k]].ItemID, sl[f[k]].Quantity)] :
           f \in orders}

\* SELECT list_id, item_id, quantity FROM shopping_list WHERE ordered = FALSE:
\* the slices the query can return (no ORDER BY: the rows in any order)
GetUnorderedShoppingRows(sl) ==
    LET ids == {i \in 1..Len(sl) : ~sl[i].ordered}
        n == Cardinality(ids)
        orders == {f \in [1..n -> ids] : \A a, b \in 1..n : a # b => f[a] # f[b]}
    IN  {[k \in 1..n |-> ShoppingRow(f[k], sl[f[k]].ItemID, sl[f[k]].Quantity)] :
           f \in orders}

\* Scan of a QueryRow that found no row, or that failed
NoRows == "no rows in result set"

\* SELECT contact_id FROM items_contacts WHERE item_id = $1 LIMIT 1: the
\* results the query can have (any row of the item; an error is not told apart
\* from an empty result)
contactLookup(itemID) ==
    IF <<"contactFor", itemID>> \in down \/ Len(itemsContacts[itemID]) = 0
    THEN {NoRows}
    ELSE {itemsContacts[itemID][k] : k \in 1..Len(itemsContacts[itemID])}

GroupErr(itemID) == "no contact mapping found for item " \o itemID

\* a nil or empty Go map
EmptyMap == [k \in {} |-> {}]

\* put(m, k, v): m[k] = v
put(m, k, v) == [x \in DOMAIN m \cup {k} |-> IF x = k THEN v ELSE m[x]]

\* drops the row instead of merging it into the entry of its item
groupRowKeepFirst(groupMap, r, contactID) ==
    LET m == IF contactID \in DOMAIN groupMap THEN groupMap[contactID] ELSE EmptyMap
    IN  IF r.ItemID \in DOMAIN m THEN groupMap
        ELSE put(groupMap, contactID,
                 put(m, r.ItemID, ContactItem(r.ItemID, r.Quantity, <<r.ListID>>)))

\* the body of the loop over rows, after the lookup gave contactID
groupRow(groupMap, r, contactID) ==
    LET m == IF contactID \in DOMAIN groupMap THEN groupMap[contactID] ELSE EmptyMap
    IN  put(groupMap, contactID,
            IF r.ItemID \in DOMAIN m
            THEN [m EXCEPT ![r.ItemID] =
                     ContactItem(@.ItemID, @.Quantity + r.Quantity,
                                 Append(@.ListIDs, r.ListID))]
            ELSE put(m, r.ItemID, ContactItem(r.ItemID, r.Quantity, <<r.ListID>>)))

\* out[contact] = the entries of groupMap[contact]; a slice in map-iteration
\* order, kept as the set of its elements
groupsOut(groupMap) ==
    [c \in DOMAIN groupMap |-> {groupMap[c][k] : k \in DOMAIN groupMap[c]}]

RECURSIVE groupRows(_, _, _, _)

\* a loop that skips a row without mapping and goes on
groupRowsSkipUnmapped(rws, i, found, groupMap) ==
    IF i > Len(rws) THEN [grouped |-> groupsOut(groupMap), err |-> NoErr]
    ELSE IF found[i] = NoRows THEN groupRows(rws, i + 1, found, groupMap)
    ELSE groupRows(rws, i + 1, found, groupRow(groupMap, rws[i], found[i]))

\* the loop over rows from row i on; found[i] is what the lookup of row i gives
groupRows(rws, i, found, groupMap) ==
    IF i > Len(rws) THEN [grouped |-> groupsOut(groupMap), err |-> NoErr]
    ELSE IF found[i] = NoRows
         THEN [grouped |-> EmptyMap, err |-> GroupErr(rws[i].ItemID)]
         ELSE groupRows(rws, i + 1, found, groupRow(groupMap, rws[i], found[i]))

\* the lookup results a call over rws can meet
Lookups(rws) ==
    {f \in [1..Len(rws) -> Contacts \cup {NoRows}] :
        \A i \in 1..Len(rws) : f[i] \in contactLookup(rws[i].ItemID)}

GroupShoppingItemsByContact(rws, found) ==
    IF Len(rws) = 0 THEN [grouped |-> EmptyMap, err |-> NoErr]
    ELSE groupRows(rws, 1, found, EmptyMap)

(***************************************************************************)
(* createPurchaseOrdersHandler                                             *)
(***************************************************************************)
\* the cookie message (or the body of the error response) a request ends with
BatchMsg(text) == [text |-> text, created |-> 0, marked |-> 0]

MsgReadFailed == BatchMsg("failed to read shopping list: ")

MsgNoUnordered == BatchMsg("No unordered shopping list items found.")

MsgGroupFailed(e) == BatchMsg("Failed to group items by contact: " \o e)

MsgContactLookupFailed(accountNumber) ==
    BatchMsg("Contact lookup failed for " \o accountNumber \o ": ")

MsgNoContactID(accountNumber) ==
    BatchMsg("No ContactID found for " \o accountNumber \o " in Xero")

MsgCreateFailed(accountNumber) ==
    BatchMsg("Failed to create PO for contact " \o accountNumber \o ": ")

MsgMarkFailed == BatchMsg("failed to mark shopping list items ordered: ")

MsgCreated(created, marked) ==
    [text |-> "Created %d purchase order(s), %d shopping list rows marked ordered",
     created |-> created, marked |-> marked]

\* s with x inserted before the first element greater than x
RECURSIVE InsertSorted(_, _)
InsertSorted(s, x) ==
    IF s = <<>> THEN <<x>>
    ELSE IF x <= Head(s) THEN <<x>> \o s
    ELSE <<Head(s)>> \o InsertSorted(Tail(s), x)

RECURSIVE SortedIDs(_)
SortedIDs(s) == IF s = <<>> THEN <<>> ELSE InsertSorted(SortedIDs(Tail(s)), Head(s))

\* the ListIDs of the items of a group, appended item by item
RECURSIVE listIDsOf(_)
listIDsOf(items) ==
    IF items = {} THEN <<>>
    ELSE LET it == CHOOSE x \in items : TRUE
         IN  it.ListIDs \o listIDsOf(items \ {it})

\* a handler that keeps the ids of the last group only
appendListIDsLast(allListIDs, items) == SortedIDs(listIDsOf(items))

\* allListIDs = append(allListIDs, it.ListIDs...) for every item of the group;
\* the order of the slice follows map iteration and is never observed, so it
\* is kept sorted
appendListIDs(allListIDs, items) == SortedIDs(allListIDs \o listIDsOf(items))

\* the description of a line: the catalogue name when the lookup gives one,
\* otherwise the item code
\* a line that takes whatever name the lookup returned
descriptionOfLookup(code) == getItem(code).name

description(code) ==
    LET r == getItem(code)
    IN  IF r.err = NoErr /\ r.exists /\ r.name # "" THEN r.name ELSE code

POItem(code, quantity, desc) ==
    [ItemCode |-> code, Quantity |-> quantity, Description |-> desc]

poItems(items) == {POItem(it.ItemID, it.Quantity, description(it.ItemID)) : it \in items}

\* a purchase order created in Xero for a contact; Run and ListIDs are not
\* part of the order: they record the request that created it and the
\* shopping_list rows its lines were built from
PurchaseOrder(r, accountNumber, items) ==
    [Run |-> r, Contact |-> accountNumber, Items |-> poItems(items),
     ListIDs |-> {listIDsOf(items)[k] : k \in 1..Len(listIDsOf(items))}]

\* UPDATE shopping_list SET ordered = TRUE WHERE list_id = ANY(ids)
MarkShoppingListOrdered(sl, ids) ==
    [i \in 1..Len(sl) |->
        IF \E k \in 1..Len(ids) : ids[k] = i THEN [sl[i] EXCEPT !.ordered = TRUE]
        ELSE sl[i]]

(***************************************************************************)
(* Bounds and input domains                                                *)
(***************************************************************************)
MaxRoots == 2

MaxDepthArg == 3

MaxEdges == 2

MaxChildren == 2

\* maxDepth as getInvoiceHandler passes it
DefaultMaxDepth == 12

RootItem(id, qty) == [PartID |-> id, Name |-> "line-" \o id, Quantity |-> qty]

\* rows of parent_child for one parent, with quantities from ms: distinct
\* children (primary key), in the order the query returns them
ChildRows(ms) ==
    {<<>>}
    \cup {<<<<c, m>>>> : c \in Items, m \in ms}
    \cup {<<<<c1, m1>>, <<c2, m2>>>> :
            c1 \in Items, c2 \in Items, m1 \in ms, m2 \in ms}

RowsOK(rs) ==
    /\ Len(rs) <= MaxChildren
    /\ \A i, j \in 1..Len(rs) : i # j => rs[i][1] # rs[j][1]

EdgeCount(pcTable) == Len(pcTable["A"]) + Len(pcTable["B"]) + Len(pcTable["C"])

\* the items a resolution of rts can come to: the roots and everything below
\* them in parent_child
ChildrenOf(pcTable, S) ==
    S \cup {pcTable[x[1]][x[2]][1] :
              x \in {y \in S \X (1..MaxChildren + 1) : y[2] <= Len(pcTable[y[1]])}}

Reachable(pcTable, rts) ==
    LET r0 == {rts[i].PartID : i \in 1..Len(rts)}
    IN  ChildrenOf(pcTable, ChildrenOf(pcTable, ChildrenOf(pcTable, r0)))

NoTotals == {}

InitResults ==
    /\ pc = "start"
    /\ bom = <<>>
    /\ errMsg = NoMsg
    /\ err = NoErr
    /\ lookups = <<>>
    /\ perAssy = <<>>
    /\ leafTotals = NoTotals
    /\ directTotals = NoTotals
    /\ walkTotals = NoTotals
    /\ viewPerAssy = <<>>

\* the invocations of ResolveInvoiceBOM that run at the same time
Calls == {1, 2}

\* a frame of dfs: its arguments, the lookup it is at, and the locals of the
\* loop over the children
Frame(id, displayName, qty, depth) ==
    [id |-> id, name |-> displayName, qty |-> qty, depth |-> depth, at |-> "enter",
     pairs |-> <<>>, k |-> 1, node |-> NoNode]

\* a call: the loop over the roots (i, out), the frames of dfs, its visiting
\* map and what it returned; snap is the items_contacts table it started on,
\* mid tells that it started while another call was inside dfs
IdleCall ==
    [pc |-> "idle", i |-> 1, stack |-> <<>>, visiting |-> {}, out |-> <<>>,
     bom |-> <<>>, errMsg |-> NoMsg, err |-> NoErr, snap |-> <<>>, mid |-> FALSE]

\* the requests to createPurchaseOrdersHandler, served concurrently
Runs == {1, 2}

NoBatchMsg == [text |-> "", created |-> 0, marked |-> 0]

IdleRun ==
    [pc |-> "idle", rows |-> <<>>, grouped |-> EmptyMap, todo |-> {},
     allListIDs |-> <<>>, created |-> 0, msg |-> NoBatchMsg]

\* the values of the state parameter: one that xeroConnectHandler hands out
\* and one it never does
OAuthStates == {"s1", "s2"}

NoRow == [owner_id |-> "", expires_at |-> 0, created_at |-> 0, present |-> FALSE]

\* what ConsumeOAuthState returned (ownerID, found, err), with what the table
\* held when its statement ran
NoReturn ==
    [ownerID |-> "", found |-> FALSE, err |-> FALSE, row |-> NoRow, stored |-> 0,
     finds |-> 0, done |-> FALSE]

\* a call of ConsumeOAuthState: where it is, its argument, its nowEpoch and
\* what it returned; mid tells that it read the time while another call for
\* the same state was between its reading and its statement
IdleConsume == [pc |-> "idle", state |-> "", nowEpoch |-> 0, mid |-> FALSE, ret |-> NoReturn]

InitGroupIdle ==
    /\ shoppingList = <<>>
    /\ purchaseOrders = {}
    /\ markCalls = {}
    /\ run = [r \in Runs |-> IdleRun]
    /\ calls = [c \in Calls |-> IdleCall]
    /\ oauthStates = [s \in OAuthStates |-> NoRow]
    /\ stored = [s \in OAuthStates |-> 0]
    /\ clock = 0
    /\ consume = [r \in Runs |-> IdleConsume]
    /\ finds = [s \in OAuthStates |-> 0]

(***************************************************************************)
(* SpecBOM: every component graph of at most MaxEdges edges over Items     *)
(* (cycles and self references included), every choice of catalogue and    *)
(* purchase mappings, root lists of one quantity.  Rows the call cannot    *)
(* read are left out: an item that is not in the catalogue, or that no     *)
(* root leads to, has no rows; item codes being interchangeable, the       *)
(* first root is "A".                                                      *)
(***************************************************************************)
StructMults == {2}

StructRootLists ==
    UNION {[1..n -> {RootItem(id, R(2)) : id \in Items}] : n \in 1..MaxRoots}

InitBOM ==
    /\ xeroItems \in SUBSET Items
    /\ itemsContacts \in [Items -> {<<>>, <<"C-AAA">>}]
    /\ parentChild \in [Items -> {rs \in ChildRows(StructMults) : RowsOK(rs)}]
    /\ EdgeCount(parentChild) <= MaxEdges
    /\ \A i \in Items \ xeroItems : itemsContacts[i] = <<>> /\ parentChild[i] = <<>>
    /\ down = {}
    /\ revision = "xero"
    /\ lines = <<>>
    /\ unnamed = {}
    /\ roots \in StructRootLists
    /\ roots[1].PartID = "A"
    /\ xeroItems \subseteq Reachable(parentChild, roots)
    /\ maxDepth \in 1..MaxDepthArg
    /\ InitResults
    /\ InitGroupIdle

(***************************************************************************)
(* SpecQty: every acyclic component graph over Items (edges lead from a    *)
(* smaller item code to a larger one), every choice of purchase mappings,  *)
(* and root lists whose first quantity is an integer, a half, zero or      *)
(* negative, resolved with the depth bound of getInvoiceHandler.           *)
(***************************************************************************)
QtyMults == {1, 2, 3}

RootQtys == {R(2), R(3), Half, R(0), R(-1)}

ItemRank == [i \in Items |-> CASE i = "A" -> 1 [] i = "B" -> 2 [] i = "C" -> 3]

Downward(pcTable) ==
    \A p \in Items : \A i \in 1..Len(pcTable[p]) :
        ItemRank[p] < ItemRank[pcTable[p][i][1]]

QtyRootLists ==
    UNION {{rl \in [1..n -> {RootItem(id, q) : id \in Items, q \in RootQtys}] :
              \A i \in 2..n : rl[i].Quantity = R(3)} : n \in 1..MaxRoots}

InitQty ==
    /\ xeroItems = Items
    /\ itemsContacts \in [Items -> {<<>>, <<"C-AAA">>}]
    /\ parentChild \in [Items -> {rs \in ChildRows(QtyMults) : RowsOK(rs)}]
    /\ Downward(parentChild)
    /\ down = {}
    /\ revision = "xero"
    /\ lines = <<>>
    /\ unnamed = {}
    /\ roots \in QtyRootLists
    /\ \A i \in Items \ Reachable(parentChild, roots) :
          itemsContacts[i] = <<>> /\ parentChild[i] = <<>>
    /\ maxDepth = DefaultMaxDepth
    /\ InitResults
    /\ InitGroupIdle

\* invoice lines with decimal quantities (0.4, 0.7, 2.4 as floats), all of
\* purchasable items
MaxFracRoots == 3

FracQtys == {Fl(<<2, 5>>), Fl(<<7, 10>>), Fl(<<12, 5>>)}

FracRootLists ==
    UNION {[1..n -> {RootItem(id, q) : id \in Items, q \in FracQtys}] :
             n \in 1..MaxFracRoots}

InitFrac ==
    /\ xeroItems = Items
    /\ itemsContacts = [i \in Items |-> <<"C-AAA">>]
    /\ parentChild = [i \in Items |-> <<>>]
    /\ down = {}
    /\ revision = "xero"
    /\ lines = <<>>
    /\ unnamed = {}
    /\ roots \in FracRootLists
    /\ maxDepth = DefaultMaxDepth
    /\ InitResults
    /\ InitGroupIdle

(***************************************************************************)
(* SpecLookup: both resolvers over every acyclic component graph of at     *)
(* most MaxEdges edges, with at most one collaborator lookup failing, of    *)
(* an item that exists.                                                    *)
(***************************************************************************)
LookupKinds == {"getItem", "hasContact", "getChildren"}

InitLookup ==
    /\ xeroItems \in SUBSET Items
    /\ itemsContacts \in [Items -> {<<>>, <<"C-AAA">>}]
    /\ parentChild \in [Items -> {rs \in ChildRows(StructMults) : RowsOK(rs)}]
    /\ Downward(parentChild)
    /\ EdgeCount(parentChild) <= MaxEdges
    /\ \A i \in Items \ xeroItems : itemsContacts[i] = <<>> /\ parentChild[i] = <<>>
    /\ down \in {{}} \cup {{<<k, i>>} : k \in LookupKinds, i \in xeroItems}
    /\ revision \in {"xero", "parts"}
    /\ lines = <<>>
    /\ unnamed = {}
    /\ roots \in StructRootLists
    /\ xeroItems \subseteq Reachable(parentChild, roots)
    /\ maxDepth = DefaultMaxDepth
    /\ InitResults
    /\ InitGroupIdle

(***************************************************************************)
(* SpecInvoice: getInvoiceHandler from the invoice lines on.  Lines of     *)
(* quantity 2, 0 and -1 over every acyclic component graph of at most      *)
(* MaxEdges edges.                                                         *)
(***************************************************************************)
InvoiceLine(code, qty) == [ItemCode |-> code, Name |-> "line-" \o code, Quantity |-> qty]

LineQtys == {R(2), R(0), R(-1)}

LineLists ==
    UNION {[1..n -> {InvoiceLine(id, q) : id \in Items, q \in LineQtys}] :
             n \in 1..MaxRoots}

InitInvoice ==
    /\ xeroItems = Items
    /\ itemsContacts \in [Items -> {<<>>, <<"C-AAA">>}]
    /\ parentChild \in [Items -> {rs \in ChildRows(StructMults) : RowsOK(rs)}]
    /\ Downward(parentChild)
    /\ EdgeCount(parentChild) <= MaxEdges
    /\ down = {}
    /\ revision = "xero"
    /\ lines \in LineLists
    /\ unnamed = {}
    /\ \A i \in Items \ Reachable(parentChild, [k \in 1..Len(lines) |->
                                       RootItem(lines[k].ItemCode, lines[k].Quantity)]) :
          itemsContacts[i] = <<>> /\ parentChild[i] = <<>>
    /\ roots = <<>>
    /\ maxDepth = DefaultMaxDepth
    /\ pc = "fetched"
    /\ bom = <<>>
    /\ errMsg = NoMsg
    /\ err = NoErr
    /\ lookups = <<>>
    /\ perAssy = <<>>
    /\ leafTotals = NoTotals
    /\ directTotals = NoTotals
    /\ walkTotals = NoTotals
    /\ viewPerAssy = <<>>
    /\ InitGroupIdle

(***************************************************************************)
(* Actions of the invoice pipeline                                         *)
(***************************************************************************)
\* getInvoiceHandler builds the roots from the invoice lines: every line
\* becomes a root
BuildRoots ==
    /\ pc = "fetched"
    /\ roots' = rootsOfLines(lines)
    /\ pc' = IF Len(lines) = 0 THEN "noitems" ELSE "start"
    /\ UNCHANGED <<dbVars, oauthVars, calls, maxDepth, bom, errMsg, err, lookups, perAssy, leafTotals,
                   directTotals, walkTotals, viewPerAssy, groupVars>>

\* the getInvoiceHandler that skips a line without item code or whose
\* quantity is not positive
BuildRootsValid ==
    /\ pc = "fetched"
    /\ roots' = rootsOfLines(validLines(lines))
    /\ pc' = IF Len(roots') = 0 THEN "noitems" ELSE "start"
    /\ UNCHANGED <<dbVars, oauthVars, calls, maxDepth, bom, errMsg, err, lookups, perAssy, leafTotals,
                   directTotals, walkTotals, viewPerAssy, groupVars>>

\* a call ResolveInvoiceBOM(roots, maxDepth)
Resolve ==
    /\ pc = "start"
    /\ LET r == ResolveInvoiceBOM(roots, maxDepth)
       IN  /\ bom' = r.bom
           /\ errMsg' = r.errMsg
           /\ err' = r.err
           /\ lookups' = r.log
    /\ pc' = "resolved"
    /\ UNCHANGED <<dbVars, oauthVars, calls, roots, maxDepth, perAssy, leafTotals, directTotals,
                   walkTotals, viewPerAssy, groupVars>>

\* a call BuildPerAssemblyBOM(bom, roots) after a successful resolution
BuildPerAssembly ==
    /\ pc = "resolved"
    /\ err = NoErr
    /\ errMsg = NoMsg
    /\ perAssy' = BuildPerAssemblyBOM(bom, roots)
    /\ pc' = "built"
    /\ UNCHANGED <<dbVars, oauthVars, calls, roots, maxDepth, bom, errMsg, err, lookups, leafTotals,
                   directTotals, walkTotals, viewPerAssy, groupVars>>

\* a call AggregateLeafTotals(perAssy)
Aggregate ==
    /\ pc = "built"
    /\ leafTotals' = AggregateLeafTotals(perAssy)
    /\ pc' = "done"
    /\ UNCHANGED <<dbVars, oauthVars, calls, roots, maxDepth, bom, errMsg, err, lookups, perAssy,
                   directTotals, walkTotals, viewPerAssy, groupVars>>

\* a call AggregateLeafTotals(bom) on the effective-quantity trees themselves
AggregateDirect ==
    /\ pc = "resolved"
    /\ err = NoErr
    /\ errMsg = NoMsg
    /\ directTotals' = AggregateLeafTotals(bom)
    /\ pc' = "direct"
    /\ UNCHANGED <<dbVars, oauthVars, calls, roots, maxDepth, bom, errMsg, err, lookups, perAssy,
                   leafTotals, walkTotals, viewPerAssy, groupVars>>

\* step 4 of getInvoiceHandler: the leaf walk over the resolved trees
LeafWalk ==
    /\ pc = "resolved"
    /\ err = NoErr
    /\ errMsg = NoMsg
    /\ walkTotals' = handlerLeafTotals(bom)
    /\ pc' = "walked"
    /\ UNCHANGED <<dbVars, oauthVars, calls, roots, maxDepth, bom, errMsg, err, lookups, perAssy,
                   leafTotals, directTotals, viewPerAssy, groupVars>>

\* step 3 of getInvoiceHandler: the per-assembly view built by its own norm
ViewPerAssembly ==
    /\ pc = "resolved"
    /\ err = NoErr
    /\ errMsg = NoMsg
    /\ viewPerAssy' = handlerPerAssy(bom, roots)
    /\ pc' = "viewed"
    /\ UNCHANGED <<dbVars, oauthVars, calls, roots, maxDepth, bom, errMsg, err, lookups, perAssy,
                   leafTotals, directTotals, walkTotals, groupVars>>

NextBOM ==
    \/ Resolve
    \/ BuildPerAssembly
    \/ Aggregate
    \/ AggregateDirect
    \/ LeafWalk
    \/ ViewPerAssembly

SpecBOM == InitBOM /\ [][NextBOM]_vars

SpecQty == InitQty /\ [][NextBOM]_vars

SpecFrac == InitFrac /\ [][NextBOM]_vars

SpecLookup == InitLookup /\ [][NextBOM]_vars

NextInvoice == BuildRoots \/ BuildRootsValid \/ NextBOM

SpecInvoice == InitInvoice /\ [][NextInvoice]_vars

(***************************************************************************)
(* SpecBatch: shopping-list insertions and requests to                     *)
(* createPurchaseOrdersHandler, interleaved at their database and Xero     *)
(* calls.  Item B may have two contacts, item C may have none, and the     *)
(* mapping lookup of A may fail.                                           *)
(***************************************************************************)
MaxRecords == 2

\* the quantity entered for the k-th record is 2^(k-1), so that a sum of
\* quantities tells which records it is made of
BatchQty(k) == Pow2(k - 1)

BatchMappings ==
    {[i \in Items |-> CASE i = "A" -> <<"C-AAA">> [] i = "B" -> b [] i = "C" -> c] :
        b \in {<<"C-AAA">>, <<"C-AAA", "C-BBB">>}, c \in {<<>>, <<"C-BBB">>}}

\* what is wrong with the collaborators during the requests: nothing; the
\* mapping lookup of A fails; the name lookup of A fails and C has no name
BatchFaults ==
    {<<{}, {}>>, <<{<<"contactFor", "A">>}, {}>>, <<{<<"getItem", "A">>}, {"C"}>>}

InitBatch ==
    /\ xeroItems = {"A", "C"}
    /\ itemsContacts \in BatchMappings
    /\ parentChild = [i \in Items |-> <<>>]
    /\ \E f \in BatchFaults : down = f[1] /\ unnamed = f[2]
    /\ revision = "xero"
    /\ lines = <<>>
    /\ roots = <<>>
    /\ maxDepth = DefaultMaxDepth
    /\ InitResults
    /\ InitGroupIdle

\* AddShoppingListEntry(itemID, quantity, ordered)
AddShoppingListEntry(itemID, quantity, ordered) ==
    /\ Len(shoppingList) < MaxRecords
    /\ shoppingList' = Append(shoppingList, ShoppingRecord(itemID, quantity, ordered))
    /\ UNCHANGED <<dbVars, oauthVars, calls, bomVars, purchaseOrders, markCalls, run>>

\* the request ends: its locals go out of scope, the message is what it leaves
finish(r, msg) == [run EXCEPT ![r] = [IdleRun EXCEPT !.pc = "done", !.msg = msg]]

\* step 1: GetUnorderedShoppingRows
ReadRows(r) ==
    /\ run[r].pc = "idle"
    /\ \/ run' = finish(r, MsgReadFailed)
       \/ \E rws \in GetUnorderedShoppingRows(shoppingList) :
             run' = IF Len(rws) = 0 THEN finish(r, MsgNoUnordered)
                    ELSE [run EXCEPT ![r].pc = "read", ![r].rows = rws]
    /\ UNCHANGED <<dbVars, oauthVars, calls, bomVars, shoppingList, purchaseOrders, markCalls>>

\* step 2: GroupShoppingItemsByContact(rows)
GroupRows(r) ==
    /\ run[r].pc = "read"
    /\ \E found \in Lookups(run[r].rows) :
          LET res == GroupShoppingItemsByContact(run[r].rows, found)
          IN  run' = IF res.err # NoErr THEN finish(r, MsgGroupFailed(res.err))
                     ELSE [run EXCEPT ![r].pc = "grouped",
                                      ![r].grouped = res.grouped,
                                      ![r].todo = DOMAIN res.grouped]
    /\ UNCHANGED <<dbVars, oauthVars, calls, bomVars, shoppingList, purchaseOrders, markCalls>>

\* step 3, one iteration of the loop over grouped (in map-iteration order):
\* the contact lookup and CreatePurchaseOrder for one account number
CreateOrder(r) ==
    /\ run[r].pc = "grouped"
    /\ \E accountNumber \in run[r].todo :
          LET items == run[r].grouped[accountNumber]
          IN  \/ /\ run' = finish(r, MsgContactLookupFailed(accountNumber))
                 /\ UNCHANGED purchaseOrders
              \/ /\ run' = finish(r, MsgNoContactID(accountNumber))
                 /\ UNCHANGED purchaseOrders
              \/ /\ run' = finish(r, MsgCreateFailed(accountNumber))
                 /\ UNCHANGED purchaseOrders
              \/ /\ purchaseOrders' =
                        purchaseOrders \cup {PurchaseOrder(r, accountNumber, items)}
                 /\ run' = [run EXCEPT ![r].allListIDs = appendListIDs(@, items),
                                       ![r].created = @ + 1,
                                       ![r].todo = @ \ {accountNumber}]
    /\ UNCHANGED <<dbVars, oauthVars, calls, bomVars, shoppingList, markCalls>>

\* a handler that marks what it has collected before the loop over the groups
\* is through
MarkOrderedEarly(r) ==
    /\ run[r].pc = "grouped"
    /\ Len(run[r].allListIDs) > 0
    /\ shoppingList' = MarkShoppingListOrdered(shoppingList, run[r].allListIDs)
    /\ markCalls' = markCalls \cup {[Run |-> r, ids |-> run[r].allListIDs, ok |-> TRUE]}
    /\ run' = finish(r, MsgCreated(run[r].created, Len(run[r].allListIDs)))
    /\ UNCHANGED <<dbVars, oauthVars, calls, bomVars, purchaseOrders>>

\* step 4: MarkShoppingListOrdered(allListIDs) and the final message
MarkOrdered(r) ==
    /\ run[r].pc = "grouped"
    /\ run[r].todo = {}
    /\ LET ids == run[r].allListIDs
           created == MsgCreated(run[r].created, Len(ids))
       IN  IF Len(ids) > 0
           THEN \/ /\ shoppingList' = MarkShoppingListOrdered(shoppingList, ids)
                   /\ markCalls' = markCalls \cup {[Run |-> r, ids |-> ids, ok |-> TRUE]}
                   /\ run' = finish(r, created)
                \/ /\ markCalls' = markCalls \cup {[Run |-> r, ids |-> ids, ok |-> FALSE]}
                   /\ run' = finish(r, MsgMarkFailed)
                   /\ UNCHANGED shoppingList
           ELSE /\ run' = finish(r, created)
                /\ UNCHANGED <<shoppingList, markCalls>>
    /\ UNCHANGED <<dbVars, oauthVars, calls, bomVars, purchaseOrders>>

NextBatch ==
    \/ \E itemID \in Items, ordered \in BOOLEAN :
          AddShoppingListEntry(itemID, BatchQty(Len(shoppingList) + 1), ordered)
    \/ \E r \in Runs : ReadRows(r)
    \/ \E r \in Runs : GroupRows(r)
    \/ \E r \in Runs : CreateOrder(r)
    \/ \E r \in Runs : MarkOrdered(r)

SpecBatch == InitBatch /\ [][NextBatch]_vars

(***************************************************************************)
(* Tree addressing used by the properties: a path is the sequence of child *)
(* indices leading from a root node to a node                              *)
(***************************************************************************)
RECURSIVE PathsOf(_)
PathsOf(node) ==
    {<<>>} \cup UNION {{<<j>> \o p : p \in PathsOf(node.Children[j])} :
                          j \in 1..Len(node.Children)}

RECURSIVE NodeAt(_, _)
NodeAt(node, path) ==
    IF path = <<>> THEN node ELSE NodeAt(node.Children[Head(path)], Tail(path))

\* product of the parent_child quantities met when following path from item id
RECURSIVE EdgeProduct(_, _)
EdgeProduct(id, path) ==
    IF path = <<>> THEN 1
    ELSE LET row == parentChild[id][Head(path)]
         IN  row[2] * EdgeProduct(row[1], Tail(path))

Resolved == pc # "start" /\ err = NoErr /\ errMsg = NoMsg

(***************************************************************************)
(* C1: every node of every tree returned by ResolveInvoiceBOM has          *)
(* effective quantity q times the product of the edge multipliers on the   *)
(* path from its root, q being the root's demand quantity; a root node's   *)
(* quantity is the demand quantity itself.                                 *)
(***************************************************************************)
C1_EffectiveQuantity ==
    pc # "start" =>
        \A i \in 1..Len(bom) :
            /\ bom[i].Quantity = roots[i].Quantity
            /\ \A p \in PathsOf(bom[i]) :
                  NodeAt(bom[i], p).Quantity =
                      RMul(roots[i].Quantity, R(EdgeProduct(roots[i].PartID, p)))

\* a leaf two levels below a root of quantity 3, reached over multipliers 2 and 3
C1_Witness ==
    /\ Resolved
    /\ \E i \in 1..Len(bom) : \E p \in PathsOf(bom[i]) :
          /\ Len(p) = 2
          /\ roots[i].Quantity = R(3)
          /\ EdgeProduct(roots[i].PartID, p) = 6
          /\ ~NodeAt(bom[i], p).IsAssembly
          /\ NodeAt(bom[i], p).Quantity = R(18)

(***************************************************************************)
(* Graph notions used by the properties                                    *)
(***************************************************************************)
\* the items below i, one or more edges away
Below(pcTable, i) ==
    LET kids == {pcTable[i][k][1] : k \in 1..Len(pcTable[i])}
    IN  ChildrenOf(pcTable, ChildrenOf(pcTable, kids))

\* some path from a root comes back to an item it has passed
Revisits(pcTable, rts) ==
    \E i \in Reachable(pcTable, rts) : i \in Below(pcTable, i)

\* the edges a resolution follows: those leaving a catalogued item that has no
\* purchase mapping
followed ==
    [p \in Items |-> IF p \in xeroItems /\ itemsContacts[p] = <<>>
                     THEN parentChild[p] ELSE <<>>]

\* nothing on the traversal is missing from the catalogue or lacks both a
\* mapping and components
TraversalSound ==
    \A i \in Reachable(followed, roots) :
        i \in xeroItems /\ (itemsContacts[i] # <<>> \/ parentChild[i] # <<>>)

(***************************************************************************)
(* C2 as claimed: if the component graph reachable from the roots contains *)
(* a path that revisits an item, ResolveInvoiceBOM returns no trees and a  *)
(* message containing "circular", whatever maxDepth and the purchase       *)
(* mappings are.                                                           *)
(***************************************************************************)
C2_AsClaimed ==
    (pc # "start" /\ Revisits(parentChild, roots)) =>
        (bom = <<>> /\ ContainsCircular(errMsg))

(***************************************************************************)
(* C2 amended: if the graph the resolver traverses from the roots (it does *)
(* not descend below an item that has a purchase mapping) contains a path  *)
(* that revisits an item, ResolveInvoiceBOM returns no trees and a         *)
(* non-empty message; the message contains "circular" when every item on   *)
(* the traversal exists and has a mapping or components.                   *)
(***************************************************************************)
C2_TraversedCycleReported ==
    (pc # "start" /\ Revisits(followed, roots)) =>
        /\ bom = <<>>
        /\ errMsg # NoMsg
        /\ TraversalSound => ContainsCircular(errMsg)

\* a two-item cycle below the root, caught by the cycle guard
C2_Witness ==
    /\ pc = "resolved"
    /\ Revisits(followed, roots)
    /\ TraversalSound
    /\ maxDepth >= 3
    /\ \E i \in Items : errMsg = MsgCircular(i) /\ Len(lookups) >= 6

(***************************************************************************)
(* C3: ResolveInvoiceBOM is all-or-nothing over the root list.  If some    *)
(* root, resolved on its own, ends in a business message, the call returns *)
(* no trees and the message of the first such root, having made the        *)
(* lookups of the roots up to that one and none for a later root;          *)
(* otherwise it returns an empty message and one tree per root, in root    *)
(* order.                                                                  *)
(***************************************************************************)
Single(i) == ResolveInvoiceBOM(<<roots[i]>>, maxDepth)

RECURSIVE LogsUpTo(_)
LogsUpTo(k) == IF k = 0 THEN <<>> ELSE LogsUpTo(k - 1) \o Single(k).log

FailingRoots == {i \in 1..Len(roots) : Single(i).errMsg # NoMsg}

C3_AllOrNothing ==
    pc # "start" =>
        IF FailingRoots # {}
        THEN LET k == CHOOSE i \in FailingRoots : \A j \in FailingRoots : i <= j
             IN  /\ bom = <<>>
                 /\ errMsg = Single(k).errMsg
                 /\ errMsg # NoMsg
                 /\ lookups = LogsUpTo(k)
        ELSE /\ errMsg = NoMsg
             /\ Len(bom) = Len(roots)
             /\ \A i \in 1..Len(roots) : bom[i] = Single(i).bom[1]

\* the first root resolves, the second aborts: nothing is returned
C3_Witness ==
    /\ pc = "resolved"
    /\ Len(roots) = 2
    /\ Single(1).errMsg = NoMsg
    /\ Len(Single(1).bom) = 1
    /\ Single(2).errMsg # NoMsg
    /\ bom = <<>>
    /\ errMsg # NoMsg

(***************************************************************************)
(* Sums over the leaves of a list of trees, by path                        *)
(***************************************************************************)
\* the leaf occurrences of item id in trees: <<tree index, path>>
LeafOccurrences(trees, id) ==
    UNION {{<<i, p>> : p \in {q \in PathsOf(trees[i]) :
                                /\ ~NodeAt(trees[i], q).IsAssembly
                                /\ NodeAt(trees[i], q).PartID = id}} :
             i \in 1..Len(trees)}

\* path a comes before path b in a depth-first, left-to-right traversal
RECURSIVE PathBefore(_, _)
PathBefore(a, b) ==
    IF a = <<>> \/ b = <<>> THEN a = <<>> /\ b # <<>>
    ELSE IF Head(a) # Head(b) THEN Head(a) < Head(b)
    ELSE PathBefore(Tail(a), Tail(b))

\* occurrence a is visited before occurrence b
VisitedBefore(a, b) == a[1] < b[1] \/ (a[1] = b[1] /\ PathBefore(a[2], b[2]))

\* float sum of q[o] over the occurrences o in occ, added in traversal order
RECURSIVE SumOver(_, _)
SumOver(occ, q) ==
    IF occ = {} THEN R(0)
    ELSE LET last == CHOOSE x \in occ : \A y \in occ \ {x} : VisitedBefore(y, x)
         IN  RAdd(SumOver(occ \ {last}, q), q[last])

\* sum of the quantities of the leaf occurrences of id
LeafSum(trees, id) ==
    LET occ == LeafOccurrences(trees, id)
    IN  SumOver(occ, [o \in occ |-> NodeAt(trees[o[1]], o[2]).Quantity])

\* product of the positive quantities of the first k assemblies on the way to
\* the node at path, multiplied from the root down
RECURSIVE AncestorProduct(_, _, _)
AncestorProduct(tree, path, k) ==
    IF k = 0 THEN R(1)
    ELSE LET q == NodeAt(tree, SubSeq(path, 1, k - 1)).Quantity
             above == AncestorProduct(tree, path, k - 1)
         IN  IF RPos(q) THEN RMul(above, q) ELSE above

MultipliedQuantity(tree, path) ==
    RMul(AncestorProduct(tree, path, Len(path)), NodeAt(tree, path).Quantity)

\* the quantity a list of totals holds for id, as a set (one element when there
\* is exactly one entry)
QuantitiesFor(totals, id) == {lt.Quantity : lt \in {x \in totals : x.PartID = id}}

EntriesFor(totals, id) == {x \in totals : x.PartID = id}

\* totals has exactly one entry for each item with leaf occurrences in trees,
\* holding Q(id), and no other entry
TotalsAre(totals, trees, Q) ==
    /\ \A lt \in totals : LeafOccurrences(trees, lt.PartID) # {}
    /\ \A id \in Items :
          LeafOccurrences(trees, id) # {} =>
              /\ Cardinality(EntriesFor(totals, id)) = 1
              /\ QuantitiesFor(totals, id) = {Q[id]}

(***************************************************************************)
(* C4 as claimed: the leaf totals obtained by AggregateLeafTotals over     *)
(* BuildPerAssemblyBOM(trees, roots) hold exactly one entry per            *)
(* purchasable item, whose quantity is the sum of the effective quantities *)
(* of the item's leaf occurrences in all root trees; assemblies produce no *)
(* entry.                                                                  *)
(***************************************************************************)
C4_SumOfLeaves == [id \in Items |-> LeafSum(bom, id)]

C4_AsClaimed == pc = "done" => TotalsAre(leafTotals, bom, C4_SumOfLeaves)

(***************************************************************************)
(* C4 amended: the quantity of each entry is that sum rounded to the       *)
(* nearest integer (math.Round).                                           *)
(***************************************************************************)
C4_RoundedSumOfLeaves == [id \in Items |-> RRound(LeafSum(bom, id))]

C4_LeafTotalsRoundedSum ==
    pc = "done" => TotalsAre(leafTotals, bom, C4_RoundedSumOfLeaves)

\* roots of quantity 2 and 3, each needing 3 of the same leaf: one total of 15
C4_Witness ==
    /\ pc = "done"
    /\ Len(roots) = 2
    /\ roots[1].Quantity = R(2)
    /\ roots[2].Quantity = R(3)
    /\ \A i \in 1..2 : /\ bom[i].IsAssembly
                       /\ Len(bom[i].Children) = 1
                       /\ bom[i].Children[1].PartID = "C"
                       /\ perAssy[i].Children[1].Quantity = R(3)
    /\ leafTotals = {LeafTotal("C", "name-C", R(15))}

(***************************************************************************)
(* C5 as claimed: AggregateLeafTotals applied directly to the trees        *)
(* returned by ResolveInvoiceBOM recurses through assemblies without       *)
(* multiplying, so each total is the plain sum of the effective quantities *)
(* of the item's leaf occurrences (taken here after the final math.Round,  *)
(* so that only the multiplication is in question).                        *)
(***************************************************************************)
C5_AsClaimed ==
    pc = "direct" => TotalsAre(directTotals, bom, C4_RoundedSumOfLeaves)

\* sum over the leaf occurrences of id of the leaf's quantity times the
\* positive quantities of the assemblies above it
MultipliedSum(trees, id) ==
    LET occ == LeafOccurrences(trees, id)
    IN  SumOver(occ, [o \in occ |-> MultipliedQuantity(trees[o[1]], o[2])])

C5_RoundedMultipliedSum == [id \in Items |-> RRound(MultipliedSum(bom, id))]

(***************************************************************************)
(* C5 amended: AggregateLeafTotals multiplies each leaf's quantity by the  *)
(* positive quantities of all assemblies above it, so applied directly to  *)
(* the resolved trees each total is the rounded sum of those products; the *)
(* leaf walk of getInvoiceHandler is what recurses without multiplying and *)
(* gives the rounded plain sum of the leaves' effective quantities.        *)
(***************************************************************************)
C5_DirectMultipliesDown ==
    /\ pc = "direct" => TotalsAre(directTotals, bom, C5_RoundedMultipliedSum)
    /\ pc = "walked" => TotalsAre(walkTotals, bom, C4_RoundedSumOfLeaves)

\* root A of quantity 2 needing 3 of leaf C: effective 6, direct total 12
C5_Witness ==
    /\ pc = "direct"
    /\ Len(bom) = 1
    /\ bom[1].Quantity = R(2)
    /\ bom[1].IsAssembly
    /\ Len(bom[1].Children) = 1
    /\ bom[1].Children[1].PartID = "C"
    /\ bom[1].Children[1].Quantity = R(6)
    /\ directTotals = {LeafTotal("C", "name-C", R(12))}

(***************************************************************************)
(* C6: AggregateLeafTotals is commutative over root order and idempotent:  *)
(* aggregating any permutation of a list of trees gives the same total per *)
(* item id, and aggregating the same list again gives identical totals.    *)
(***************************************************************************)
\* item id -> the quantities the totals hold for it
QuantityById(totals) == [id \in Items |-> QuantitiesFor(totals, id)]

Permuted(trees, p) == [i \in 1..Len(trees) |-> trees[p[i]]]

C6_AsClaimed ==
    pc = "done" =>
        /\ \A p \in Permutations(1..Len(perAssy)) :
              QuantityById(AggregateLeafTotals(Permuted(perAssy, p)))
                  = QuantityById(leafTotals)
        /\ AggregateLeafTotals(perAssy) = leafTotals

(***************************************************************************)
(* C7 (round-trip law): for every tree resolved from a root quantity that  *)
(* is not negative, multiplying each node's per-assembly quantity of       *)
(* BuildPerAssemblyBOM(trees, roots) by the reconstructed effective        *)
(* quantity of its parent, starting from the root's quantity, reproduces   *)
(* the effective quantity of every node (below a parent of effective       *)
(* quantity zero the node keeps its own quantity, which is zero too).      *)
(***************************************************************************)
\* the effective quantity rebuilt from the per-assembly tree for the node at path
RECURSIVE Reconstructed(_, _)
Reconstructed(tree, path) ==
    IF path = <<>> THEN tree.Quantity
    ELSE RMul(Reconstructed(tree, SubSeq(path, 1, Len(path) - 1)),
              NodeAt(tree, path).Quantity)

Built == pc \in {"built", "done"}

C7_RoundTrip ==
    Built =>
        \A i \in 1..Len(perAssy) :
            ~RPos(RMul(R(-1), roots[i].Quantity)) =>
                /\ PathsOf(perAssy[i]) = PathsOf(bom[i])
                /\ \A p \in PathsOf(bom[i]) :
                      Reconstructed(perAssy[i], p) = NodeAt(bom[i], p).Quantity

\* a root of quantity 3 over multipliers 2 and 3: per-assembly 3, 2, 3 rebuild 18
C7_Witness ==
    /\ Built
    /\ \E i \in 1..Len(perAssy) : \E p \in PathsOf(bom[i]) :
          /\ Len(p) = 2
          /\ perAssy[i].Quantity = R(3)
          /\ NodeAt(perAssy[i], SubSeq(p, 1, 1)).Quantity = R(2)
          /\ NodeAt(perAssy[i], p).Quantity = R(3)
          /\ NodeAt(bom[i], p).Quantity = R(18)
          /\ Reconstructed(perAssy[i], p) = R(18)

(***************************************************************************)
(* C8: BuildPerAssemblyBOM(trees, roots) gives root i the quantity         *)
(* roots[i].Quantity and every descendant its effective quantity divided   *)
(* by the effective quantity of its immediate parent; when the parent's    *)
(* effective quantity is zero the node's own effective quantity is used    *)
(* unchanged.                                                              *)
(***************************************************************************)
Parent(path) == SubSeq(path, 1, Len(path) - 1)

C8_AsClaimed ==
    Built =>
        \A i \in 1..Len(perAssy) :
            /\ perAssy[i].Quantity = roots[i].Quantity
            /\ \A p \in PathsOf(bom[i]) \ {<<>>} :
                  LET own == NodeAt(bom[i], p).Quantity
                      parentEff == NodeAt(bom[i], Parent(p)).Quantity
                  IN  NodeAt(perAssy[i], p).Quantity =
                          IF parentEff = R(0) THEN own ELSE RDiv(own, parentEff)

(***************************************************************************)
(* C9: GroupShoppingItemsByContact partitions its input.  Whenever a       *)
(* request holds the groups returned for the rows it read: every row id is *)
(* listed exactly once, in exactly one (contact, item) entry, and under    *)
(* the row's item and one of its contacts; every listed id is the id of a  *)
(* row; there is one entry per (contact, item) pair; the quantity of an    *)
(* entry is the sum of the quantities of the rows it lists; and the        *)
(* quantities of all entries add up to those of all rows.  Grouping only   *)
(* fails for an item whose lookup gives no contact.                        *)
(***************************************************************************)
\* the (contact, item) entries of a grouping
Entries(g) == UNION {{<<c, e>> : e \in g[c]} : c \in DOMAIN g}

\* the places where a row id is listed: <<contact, entry, position>>
Listings(g, listID) ==
    {x \in UNION {{<<ce[1], ce[2], k>> : k \in 1..Len(ce[2].ListIDs)} : ce \in Entries(g)} :
        x[2].ListIDs[x[3]] = listID}

RECURSIVE SumQuantities(_, _)
SumQuantities(rws, ids) ==
    IF rws = <<>> THEN 0
    ELSE (IF Head(rws).ListID \in ids THEN Head(rws).Quantity ELSE 0)
         + SumQuantities(Tail(rws), ids)

RECURSIVE SumEntries(_)
SumEntries(es) ==
    IF es = {} THEN 0
    ELSE LET x == CHOOSE y \in es : TRUE IN x[2].Quantity + SumEntries(es \ {x})

IDsOf(s) == {s[k] : k \in 1..Len(s)}

Partitions(rws, g) ==
    /\ \A i \in 1..Len(rws) :
          /\ Cardinality(Listings(g, rws[i].ListID)) = 1
          /\ \A x \in Listings(g, rws[i].ListID) :
                /\ x[2].ItemID = rws[i].ItemID
                /\ x[1] \in IDsOf(itemsContacts[rws[i].ItemID])
    /\ \A ce \in Entries(g) :
          /\ ce[2].ListIDs # <<>>
          /\ IDsOf(ce[2].ListIDs) \subseteq {rws[i].ListID : i \in 1..Len(rws)}
          /\ ce[2].Quantity = SumQuantities(rws, IDsOf(ce[2].ListIDs))
          /\ \A e2 \in g[ce[1]] : e2.ItemID = ce[2].ItemID => e2 = ce[2]
    /\ \A c \in DOMAIN g : g[c] # {}
    /\ SumEntries(Entries(g)) = SumQuantities(rws, {rws[i].ListID : i \in 1..Len(rws)})

C9_GroupingPartitions ==
    \A r \in Runs :
        /\ run[r].pc = "grouped" => Partitions(run[r].rows, run[r].grouped)
        /\ \A itemID \in Items :
              run[r].msg = MsgGroupFailed(GroupErr(itemID))
                  => contactLookup(itemID) = {NoRows}

\* two records of item B read by a request and merged into one entry of
\* quantity 1 + 2 that lists both
C9_Witness ==
    \E r \in Runs :
        /\ run[r].pc = "grouped"
        /\ Len(run[r].rows) = 2
        /\ \E c \in DOMAIN run[r].grouped : \E e \in run[r].grouped[c] :
              /\ e.ItemID = "B"
              /\ e.Quantity = 3
              /\ IDsOf(e.ListIDs) = {1, 2}

(***************************************************************************)
(* C10: an item without a supplier mapping fails the whole grouping.  When *)
(* the rows a request read hold an item that has no contact, wherever it   *)
(* sits, the grouping step ends the request with the message "Failed to    *)
(* group items by contact: no contact mapping found for item X", X being   *)
(* the item of the first row whose lookup gives no contact; the request    *)
(* keeps no groups, and it creates no purchase order and marks no record.  *)
(* When no lookup is failing, X is an item without a mapping.              *)
(***************************************************************************)
Unmapped(rws) == \E i \in 1..Len(rws) : itemsContacts[rws[i].ItemID] = <<>>

FirstFailing(rws) ==
    LET i == CHOOSE k \in 1..Len(rws) :
                 /\ contactLookup(rws[k].ItemID) = {NoRows}
                 /\ \A j \in 1..(k - 1) : contactLookup(rws[j].ItemID) # {NoRows}
    IN  rws[i].ItemID

GroupingFailedFor(r, itemID) ==
    run[r] = [IdleRun EXCEPT !.pc = "done", !.msg = MsgGroupFailed(GroupErr(itemID))]

C10_GroupStep ==
    \A r \in Runs :
        (run[r].pc = "read" /\ run'[r] # run[r] /\ Unmapped(run[r].rows))
            => /\ run'[r] = [IdleRun EXCEPT
                                !.pc = "done",
                                !.msg = MsgGroupFailed(GroupErr(FirstFailing(run[r].rows)))]
               /\ down = {} => itemsContacts[FirstFailing(run[r].rows)] = <<>>
               /\ UNCHANGED <<shoppingList, purchaseOrders, markCalls>>

C10_NothingOrdered ==
    \A r \in Runs :
        /\ run[r].pc \in {"read", "grouped"} /\ Unmapped(run[r].rows)
              => run[r].pc = "read"
        /\ (\E itemID \in Items : GroupingFailedFor(r, itemID))
              => /\ \A po \in purchaseOrders : po.Run # r
                 /\ \A m \in markCalls : m.Run # r

C10_UnmappedItemFailsGrouping == [][C10_GroupStep]_vars /\ []C10_NothingOrdered

\* records B (mapped) then C (no contact), both unordered; every request
\* made has failed naming C, and nothing was ordered
C10_Witness ==
    /\ Len(shoppingList) = 2
    /\ shoppingList[1].ItemID = "B" /\ shoppingList[2].ItemID = "C"
    /\ \A i \in 1..2 : ~shoppingList[i].ordered
    /\ itemsContacts["C"] = <<>>
    /\ down = {}
    /\ \A r \in Runs : GroupingFailedFor(r, "C")
    /\ purchaseOrders = {} /\ markCalls = {}

(***************************************************************************)
(* C11: marking comes after every order of the batch.  A request calls     *)
(* MarkShoppingListOrdered only when CreatePurchaseOrder has succeeded for *)
(* every contact group it holds, and an ordered flag only changes in such  *)
(* a call.  When the contact lookup or the order creation fails for a      *)
(* group, that step ends the request and changes neither the shopping      *)
(* list, nor the orders issued, nor the mark calls; a request that has     *)
(* ended issues no order and makes no mark call afterwards, so one that    *)
(* ended in such a failure has made none.                                  *)
(***************************************************************************)
OrdersOf(r) == {po \in purchaseOrders : po.Run = r}

MarksOf(r) == {m \in markCalls : m.Run = r}

OrderFailure(msg) ==
    \E c \in Contacts :
        msg \in {MsgContactLookupFailed(c), MsgNoContactID(c), MsgCreateFailed(c)}

FlagsOf(sl) == [i \in 1..Len(sl) |-> sl[i].ordered]

C11_Step ==
    /\ \A m \in markCalls' \ markCalls :
          /\ run[m.Run].pc = "grouped"
          /\ m.ids # <<>>
          /\ \A c \in DOMAIN run[m.Run].grouped :
                \E po \in purchaseOrders :
                    /\ po.Run = m.Run
                    /\ po.Contact = c
                    /\ po.Items = poItems(run[m.Run].grouped[c])
    /\ (Len(shoppingList') = Len(shoppingList) /\ FlagsOf(shoppingList') # FlagsOf(shoppingList))
          => \E m \in markCalls' \ markCalls : m.ok
    /\ \A r \in Runs :
          /\ (run[r].pc = "grouped" /\ OrderFailure(run'[r].msg))
                => /\ run'[r].pc = "done"
                   /\ UNCHANGED <<shoppingList, purchaseOrders, markCalls>>
          /\ run[r].pc = "done"
                => /\ run'[r] = run[r]
                   /\ {po \in purchaseOrders' : po.Run = r} = OrdersOf(r)
                   /\ {m \in markCalls' : m.Run = r} = MarksOf(r)

C11_NoMarkAfterFailure ==
    \A r \in Runs : OrderFailure(run[r].msg) => run[r].pc = "done" /\ MarksOf(r) = {}

C11_MarkAfterAllOrders == [][C11_Step]_vars /\ []C11_NoMarkAfterFailure

\* a request that issued the order of one group and failed to create the
\* order of the other: it has ended, and both records are still unordered
C11_Witness ==
    \E r \in Runs :
        /\ run[r].msg = MsgCreateFailed("C-BBB")
        /\ \E po \in OrdersOf(r) : po.Contact = "C-AAA"
        /\ markCalls = {}
        /\ Len(shoppingList) = 2
        /\ \A i \in 1..2 : ~shoppingList[i].ordered

(***************************************************************************)
(* C12: the ordered flag tells that a real order exists.  Whenever no      *)
(* request is under way (each has not started or has ended), a record of   *)
(* shopping_list is ordered exactly when some purchase order that was      *)
(* issued was built from it.                                               *)
(***************************************************************************)
Quiescent == \A r \in Runs : run[r].pc \in {"idle", "done"}

OnSomeOrder(listID) == \E po \in purchaseOrders : listID \in po.ListIDs

C12_AsClaimed ==
    Quiescent =>
        \A i \in 1..Len(shoppingList) : shoppingList[i].ordered <=> OnSomeOrder(i)

(***************************************************************************)
(* C13: what a successful request has done.  When a request ends with      *)
(* "Created n purchase order(s), m shopping list rows marked ordered":     *)
(* it has issued exactly one order for each contact group the grouper      *)
(* returned and no other; each order has one line for each item of its     *)
(* group, with the quantity aggregated for that item; n is the number of   *)
(* contact groups, m the number of unordered rows the request read, and    *)
(* all those rows are ordered when it ends.                                *)
(***************************************************************************)
Succeeds(r) ==
    /\ run[r].pc = "grouped"
    /\ run'[r].pc = "done"
    /\ run'[r].msg.text = MsgCreated(0, 0).text

LinesMatch(po, items) ==
    /\ \A it \in items :
          \E l \in po.Items : l.ItemCode = it.ItemID /\ l.Quantity = it.Quantity
    /\ \A l \in po.Items : \E it \in items : l.ItemCode = it.ItemID
    /\ \A l1, l2 \in po.Items : l1.ItemCode = l2.ItemCode => l1 = l2

C13_Step ==
    \A r \in Runs :
        Succeeds(r) =>
            /\ \A c \in DOMAIN run[r].grouped :
                  /\ Cardinality({po \in OrdersOf(r) : po.Contact = c}) = 1
                  /\ \A po \in OrdersOf(r) :
                        po.Contact = c => LinesMatch(po, run[r].grouped[c])
            /\ \A po \in OrdersOf(r) : po.Contact \in DOMAIN run[r].grouped
            /\ purchaseOrders' = purchaseOrders
            /\ run'[r].msg.created = Cardinality(DOMAIN run[r].grouped)
            /\ run'[r].msg.created = Cardinality(OrdersOf(r))
            /\ run'[r].msg.marked = Len(run[r].rows)
            /\ \A i \in 1..Len(run[r].rows) :
                  shoppingList'[run[r].rows[i].ListID].ordered

C13_SuccessfulRun == [][C13_Step]_vars

\* a request that read two records of two contacts has ended reporting two
\* orders and two rows marked
C13_Witness ==
    \E r \in Runs :
        /\ run[r].pc = "done"
        /\ run[r].msg = MsgCreated(2, 2)
        /\ {po.Contact : po \in OrdersOf(r)} = {"C-AAA", "C-BBB"}
        /\ \A i \in 1..2 : shoppingList[i].ordered

(***************************************************************************)
(* C14: a failing collaborator lookup is a hard error.  When a lookup the  *)
(* resolution made (item existence, purchase mapping, component edges)     *)
(* failed, ResolveInvoiceBOM returns an error, no trees and no message.    *)
(***************************************************************************)
FailedLookup == \E k \in 1..Len(lookups) : lookups[k] \in down

C14_AsClaimed ==
    (pc # "start" /\ FailedLookup) => err # NoErr /\ bom = <<>> /\ errMsg = NoMsg

(***************************************************************************)
(* C15: lifecycle of a shopping_list record.  In every step: no record     *)
(* disappears; the item and the quantity of a record stay what they were;  *)
(* an ordered record stays ordered; a record becomes ordered only in a     *)
(* successful mark call of a purchase-order request; and a record that     *)
(* appears is not ordered.                                                 *)
(***************************************************************************)
C15_Step ==
    /\ Len(shoppingList') >= Len(shoppingList)
    /\ \A i \in 1..Len(shoppingList) :
          /\ shoppingList'[i].ItemID = shoppingList[i].ItemID
          /\ shoppingList'[i].Quantity = shoppingList[i].Quantity
          /\ shoppingList[i].ordered => shoppingList'[i].ordered
          /\ (~shoppingList[i].ordered /\ shoppingList'[i].ordered)
                => \E m \in markCalls' \ markCalls :
                       m.ok /\ \E k \in 1..Len(m.ids) : m.ids[k] = i
    /\ \A i \in (Len(shoppingList) + 1)..Len(shoppingList') : ~shoppingList'[i].ordered

C15_AsClaimed == [][C15_Step]_vars

(***************************************************************************)
(* C16: a line whose quantity is not greater than zero is dropped before   *)
(* resolution.  Once getInvoiceHandler has built its roots, they are the   *)
(* lines of positive quantity, in order; so no tree, no per-assembly tree  *)
(* and no leaf total comes from any other line.                            *)
(***************************************************************************)
PositiveLines == SelectSeq(lines, LAMBDA ln : RPos(ln.Quantity))

C16_AsClaimed ==
    pc # "fetched" =>
        /\ roots = rootsOfLines(PositiveLines)
        /\ \A i \in 1..Len(bom) : RPos(bom[i].Quantity)

(***************************************************************************)
(* C17: a batch run works on the records that are unordered when it reads  *)
(* the table.  The rows a request reads are exactly the records whose      *)
(* ordered flag is false at that moment, each once; the groups it builds,  *)
(* the orders it issues and the ids it passes to MarkShoppingListOrdered   *)
(* list only records among those rows.  So a record that is ordered when   *)
(* the request reads is in none of them.                                   *)
(***************************************************************************)
RowIDs(rws) == {rws[k].ListID : k \in 1..Len(rws)}

UnorderedIDs(sl) == {i \in 1..Len(sl) : ~sl[i].ordered}

GroupedIDs(g) == UNION {IDsOf(ce[2].ListIDs) : ce \in Entries(g)}

C17_Step ==
    \A r \in Runs :
        /\ (run[r].pc = "idle" /\ run'[r].pc = "read")
              => /\ RowIDs(run'[r].rows) = UnorderedIDs(shoppingList)
                 /\ Len(run'[r].rows) = Cardinality(UnorderedIDs(shoppingList))
                 /\ \A k \in 1..Len(run'[r].rows) :
                       LET row == run'[r].rows[k]
                       IN  /\ row.ItemID = shoppingList[row.ListID].ItemID
                           /\ row.Quantity = shoppingList[row.ListID].Quantity
        /\ (run[r].pc = "idle" /\ run'[r].msg = MsgNoUnordered)
              => UnorderedIDs(shoppingList) = {}
        /\ (run[r].pc = "read" /\ run'[r].pc = "grouped")
              => GroupedIDs(run'[r].grouped) \subseteq RowIDs(run[r].rows)
        /\ run[r].pc = "grouped"
              => /\ GroupedIDs(run[r].grouped) \subseteq RowIDs(run[r].rows)
                 /\ IDsOf(run'[r].allListIDs) \subseteq RowIDs(run[r].rows)
        /\ \A po \in purchaseOrders' \ purchaseOrders :
              po.Run = r => po.ListIDs \subseteq RowIDs(run[r].rows)
        /\ \A m \in markCalls' \ markCalls :
              m.Run = r => IDsOf(m.ids) \subseteq RowIDs(run[r].rows)

C17_OnlyUnorderedRecords == [][C17_Step]_vars

\* the first record was ordered by request 1; request 2 then read the table,
\* got the second record alone and issued an order for it
C17_Witness ==
    /\ Len(shoppingList) = 2
    /\ shoppingList[1].ordered
    /\ [Run |-> 1, ids |-> <<1>>, ok |-> TRUE] \in markCalls
    /\ run[2].pc = "grouped"
    /\ RowIDs(run[2].rows) = {2}
    /\ \E po \in OrdersOf(2) : po.ListIDs = {2}

(***************************************************************************)
(* C18: depth bound, roots being at depth 1.  No returned tree has more    *)
(* than maxDepth levels.  When the traversal is sound and acyclic, the     *)
(* call succeeds if no item lies deeper than maxDepth (a chain of exactly  *)
(* maxDepth items included), and otherwise returns no tree and the "max    *)
(* depth exceeded" message of an item at depth maxDepth + 1, whether that  *)
(* item is purchasable or not.  A "max depth exceeded" message always      *)
(* names an item at depth maxDepth + 1 and comes with no tree.             *)
(***************************************************************************)
\* the items at the end of a walk of d items along the followed edges from id
RECURSIVE WalkEnds(_, _)
WalkEnds(id, d) ==
    IF d <= 1 THEN {id}
    ELSE UNION {WalkEnds(followed[id][k][1], d - 1) : k \in 1..Len(followed[id])}

\* the items the traversal can meet at depth d
AtDepth(d) == UNION {WalkEnds(roots[i].PartID, d) : i \in 1..Len(roots)}

C18_DepthBound ==
    pc # "start" =>
        /\ \A i \in 1..Len(bom) : \A p \in PathsOf(bom[i]) : Len(p) + 1 <= maxDepth
        /\ (TraversalSound /\ ~Revisits(followed, roots)) =>
              IF AtDepth(maxDepth + 1) = {}
              THEN errMsg = NoMsg /\ Len(bom) = Len(roots)
              ELSE bom = <<>> /\ \E id \in AtDepth(maxDepth + 1) : errMsg = MsgMaxDepth(id)
        /\ \A id \in Items :
              errMsg = MsgMaxDepth(id) => bom = <<>> /\ id \in AtDepth(maxDepth + 1)

\* the chain A, B, C with C purchasable, resolved with maxDepth 2: the call
\* stops at C
C18_Witness ==
    /\ pc = "resolved"
    /\ maxDepth = 2
    /\ TraversalSound
    /\ ~Revisits(followed, roots)
    /\ itemsContacts["C"] # <<>>
    /\ AtDepth(3) = {"C"}
    /\ errMsg = MsgMaxDepth("C")
    /\ bom = <<>>

(***************************************************************************)
(* C19 as claimed: an item that does not exist is reported as not found    *)
(* whatever its depth.  When the traversal is acyclic, every catalogued    *)
(* item on it has a mapping or components, and every item deeper than      *)
(* maxDepth is missing from the catalogue, a call that meets a missing     *)
(* item returns a "not found" message.                                     *)
(***************************************************************************)
Missing == Reachable(followed, roots) \ xeroItems

ExistingSound ==
    \A i \in Reachable(followed, roots) \cap xeroItems :
        itemsContacts[i] # <<>> \/ parentChild[i] # <<>>

C19_AsClaimed ==
    (/\ pc # "start"
     /\ ~Revisits(followed, roots)
     /\ ExistingSound
     /\ Missing # {}
     /\ AtDepth(maxDepth + 1) \subseteq Missing)
        => \E id \in Missing : errMsg = MsgNotFound(id)

(***************************************************************************)
(* C19 amended: at each node the checks are applied in the order depth     *)
(* bound, cycle guard, item existence, purchase mapping, component edges,  *)
(* and the node's message is that of the first check that fails in this    *)
(* order; a check is reached only when the ones before it passed, as the   *)
(* lookups made tell.  So a "not found" message names a missing item met   *)
(* at a depth of at most maxDepth, looked up last; a missing item met      *)
(* deeper is reported as max depth exceeded without being looked up.       *)
(***************************************************************************)
NodeChecked(id, depth, visiting, r) ==
    IF depth > maxDepth
    THEN ~r.ok /\ r.errMsg = MsgMaxDepth(id) /\ r.log = <<>>
    ELSE IF id \in visiting
    THEN ~r.ok /\ r.errMsg = MsgCircular(id) /\ r.log = <<>>
    ELSE IF id \notin xeroItems
    THEN ~r.ok /\ r.errMsg = MsgNotFound(id) /\ r.log = << <<"getItem", id>> >>
    ELSE IF itemsContacts[id] # <<>>
    THEN /\ r.ok /\ r.errMsg = NoMsg /\ ~r.node.IsAssembly
         /\ r.log = << <<"getItem", id>>, <<"hasContact", id>> >>
    ELSE IF parentChild[id] = <<>>
    THEN /\ ~r.ok /\ r.errMsg = MsgNoSource(id)
         /\ r.log = << <<"getItem", id>>, <<"hasContact", id>>, <<"getChildren", id>> >>
    ELSE /\ Len(r.log) >= 3
         /\ SubSeq(r.log, 1, 3) =
               << <<"getItem", id>>, <<"hasContact", id>>, <<"getChildren", id>> >>

C19_CheckOrder ==
    pc # "start" =>
        /\ \A id \in Items, depth \in 1..(maxDepth + 1), visiting \in SUBSET Items :
              NodeChecked(id, depth, visiting,
                          dfs(id, "", R(1), depth, maxDepth, visiting, <<>>))
        /\ \A id \in Items :
              errMsg = MsgNotFound(id)
                 => /\ id \notin xeroItems
                    /\ \E d \in 1..maxDepth : id \in AtDepth(d)
                    /\ lookups # <<>>
                    /\ lookups[Len(lookups)] = <<"getItem", id>>
        /\ \A id \in Items \ xeroItems :
              (errMsg = MsgMaxDepth(id) /\ \A d \in 1..maxDepth : id \notin AtDepth(d))
                 => \A k \in 1..Len(lookups) : lookups[k] # <<"getItem", id>>

\* root A with the missing component B, resolved with maxDepth 1: B is met at
\* depth 2 and reported as too deep, without being looked up
C19_Witness ==
    /\ pc = "resolved"
    /\ maxDepth = 1
    /\ roots[1].PartID = "A"
    /\ "B" \notin xeroItems
    /\ AtDepth(2) = {"B"}
    /\ errMsg = MsgMaxDepth("B")
    /\ lookups = << <<"getItem", "A">>, <<"hasContact", "A">>, <<"getChildren", "A">> >>

(***************************************************************************)
(* C20: shape of the returned trees.  A node is a leaf (assembly flag      *)
(* false) exactly when its item has a purchase mapping, whether or not     *)
(* the item has component edges; a leaf has no children and the incoming   *)
(* quantity, and the edges of an item that has a mapping are never         *)
(* fetched.  Every other node is an assembly with one child per component  *)
(* edge, in edge order, hence with at least one child; fetching the edges  *)
(* of an item that has none ends the call with no tree and the "no         *)
(* supplier contact and no subcomponents" message for that item.           *)
(***************************************************************************)
ShapeOK(i, p) ==
    LET node == NodeAt(bom[i], p)
        id == node.PartID
    IN  /\ id \in xeroItems
        /\ node.IsAssembly <=> itemsContacts[id] = <<>>
        /\ node.Quantity = RMul(roots[i].Quantity, R(EdgeProduct(roots[i].PartID, p)))
        /\ ~node.IsAssembly => node.Children = <<>>
        /\ node.IsAssembly
              => /\ Len(node.Children) = Len(parentChild[id])
                 /\ Len(node.Children) >= 1
                 /\ \A k \in 1..Len(node.Children) :
                       node.Children[k].PartID = parentChild[id][k][1]

C20_TreeShape ==
    pc # "start" =>
        /\ \A i \in 1..Len(bom) :
              /\ bom[i].PartID = roots[i].PartID
              /\ \A p \in PathsOf(bom[i]) : ShapeOK(i, p)
        /\ \A k \in 1..Len(lookups) : \A id \in Items :
              lookups[k] = <<"getChildren", id>>
                 => /\ itemsContacts[id] = <<>>
                    /\ parentChild[id] = <<>>
                          => bom = <<>> /\ errMsg = MsgNoSource(id) /\ k = Len(lookups)

\* the assembly A with the component B, which has a purchase mapping and a
\* component of its own: B is a leaf and its edge is not fetched
C20_Witness ==
    /\ Resolved
    /\ pc = "resolved"
    /\ Len(bom) >= 1
    /\ bom[1].PartID = "A" /\ bom[1].IsAssembly
    /\ Len(bom[1].Children) = 1
    /\ bom[1].Children[1].PartID = "B"
    /\ ~bom[1].Children[1].IsAssembly
    /\ bom[1].Children[1].Children = <<>>
    /\ itemsContacts["B"] # <<>>
    /\ parentChild["B"] # <<>>
    /\ \A k \in 1..Len(lookups) : lookups[k] # <<"getChildren", "B">>

(***************************************************************************)
(* C21: the cycle guard is path-scoped.  A frame of dfs entered with a     *)
(* visiting set returns with the same set, whatever its outcome, and hands *)
(* its children that set plus its own item (a first component that is in   *)
(* it is reported as circular); the set is empty when the expansion of a   *)
(* root returns and when the call returns.  No path of a returned tree     *)
(* holds an item twice; an acyclic traversal never gives a circular        *)
(* message, and when it is sound and within the depth bound and no lookup  *)
(* fails, it succeeds with each item appearing once per path that leads to *)
(* it from the root, an item listed as two roots giving two trees.         *)
(***************************************************************************)
\* the item ids on the path p of a tree, root included
RECURSIVE IDsOnPath(_, _)
IDsOnPath(node, p) ==
    IF p = <<>> THEN <<node.PartID>>
    ELSE <<node.PartID>> \o IDsOnPath(node.Children[Head(p)], Tail(p))

\* the number of walks along the followed edges from one item to another
RECURSIVE WalkCount(_, _)
RECURSIVE WalksVia(_, _, _)
WalksVia(from, to, k) ==
    IF k > Len(followed[from]) THEN 0
    ELSE WalkCount(followed[from][k][1], to) + WalksVia(from, to, k + 1)

WalkCount(from, to) == (IF from = to THEN 1 ELSE 0) + WalksVia(from, to, 1)

Occurrences(tree, id) ==
    Cardinality({p \in PathsOf(tree) : NodeAt(tree, p).PartID = id})

FrameRestores(id, visiting, r) ==
    /\ r.visiting = visiting
    /\ (/\ id \notin visiting
        /\ id \in xeroItems
        /\ itemsContacts[id] = <<>>
        /\ parentChild[id] # <<>>
        /\ parentChild[id][1][1] \in visiting \cup {id}
        /\ maxDepth >= 2
        /\ down = {})
          => r.errMsg = MsgCircular(parentChild[id][1][1])

C21_PathScoped ==
    pc # "start" =>
        /\ \A id \in Items, visiting \in SUBSET Items :
              FrameRestores(id, visiting, dfs(id, "", R(1), 1, maxDepth, visiting, <<>>))
        /\ ResolveInvoiceBOM(roots, maxDepth).visiting = {}
        /\ \A i \in 1..Len(roots) : Single(i).visiting = {}
        /\ \A i \in 1..Len(bom) : \A p \in PathsOf(bom[i]) :
              LET ids == IDsOnPath(bom[i], p)
              IN  \A a, b \in 1..Len(ids) : a # b => ids[a] # ids[b]
        /\ ~Revisits(followed, roots)
              => /\ \A id \in Items : errMsg # MsgCircular(id)
                 /\ (TraversalSound /\ AtDepth(maxDepth + 1) = {} /\ down = {})
                       => /\ errMsg = NoMsg
                          /\ err = NoErr
                          /\ Len(bom) = Len(roots)
                          /\ \A i \in 1..Len(bom) : \A id \in Items :
                                Occurrences(bom[i], id) = WalkCount(roots[i].PartID, id)

\* the root A with the components B and C, C being a component of B too: C is
\* in the tree of A twice
C21_Witness ==
    /\ Resolved
    /\ pc = "resolved"
    /\ roots[1].PartID = "A"
    /\ Len(parentChild["A"]) = 2
    /\ Len(parentChild["B"]) = 1
    /\ itemsContacts["B"] = <<>>
    /\ Occurrences(bom[1], "C") = 2
    /\ Occurrences(bom[1], "B") = 1

(***************************************************************************)
(* C22: the per-assembly view that getInvoiceHandler builds for a resolved *)
(* invoice is BuildPerAssemblyBOM of the trees and roots, at every level.  *)
(***************************************************************************)
C22_AsClaimed == pc = "viewed" => viewPerAssy = BuildPerAssemblyBOM(bom, roots)

(***************************************************************************)
(* C23: the two aggregations agree.  For the trees ResolveInvoiceBOM       *)
(* returns for roots of positive quantity, the leaf walk of                *)
(* getInvoiceHandler over the trees and AggregateLeafTotals over           *)
(* BuildPerAssemblyBOM(trees, roots) give the same totals; whenever they   *)
(* differ, some assembly of the trees has a quantity that is not positive  *)
(* (the normalizer's fallback).                                            *)
(***************************************************************************)
RootsPositive == \A i \in 1..Len(roots) : RPos(roots[i].Quantity)

ViaPerAssembly == AggregateLeafTotals(BuildPerAssemblyBOM(bom, roots))

FallbackTriggers ==
    \E i \in 1..Len(bom) : \E p \in PathsOf(bom[i]) :
        NodeAt(bom[i], p).IsAssembly /\ ~RPos(NodeAt(bom[i], p).Quantity)

C23_AggregationsAgree ==
    /\ (pc = "walked" /\ RootsPositive) => walkTotals = ViaPerAssembly
    /\ (pc = "done" /\ RootsPositive) => leafTotals = handlerLeafTotals(bom)
    /\ (pc = "walked" /\ walkTotals # ViaPerAssembly) => FallbackTriggers

\* roots A of quantity 3 and B of quantity 3, A -> B (2 per A) -> C (3 per B):
\* C is needed 18 + 9 = 27 times
C23_Witness ==
    /\ pc = "walked"
    /\ Len(roots) = 2
    /\ roots[1].PartID = "A" /\ roots[1].Quantity = R(3)
    /\ roots[2].PartID = "B" /\ roots[2].Quantity = R(3)
    /\ parentChild["A"] = << <<"B", 2>> >>
    /\ parentChild["B"] = << <<"C", 3>> >>
    /\ walkTotals = {LeafTotal("C", "name-C", R(27))}
    /\ ViaPerAssembly = walkTotals

(***************************************************************************)
(* C24: every returned leaf total is the half-up rounding of the exact sum *)
(* of the item's contributions (the effective quantities of its leaf       *)
(* occurrences), for AggregateLeafTotals over the per-assembly trees and   *)
(* for the leaf walk of getInvoiceHandler.                                 *)
(***************************************************************************)
\* the sum of two finite quantities, without rounding
ExactAdd(a, b) == Norm(a[1] * b[2] + b[1] * a[2], a[2] * b[2])

RECURSIVE ExactSumOver(_, _)
ExactSumOver(occ, q) ==
    IF occ = {} THEN <<0, 1>>
    ELSE LET x == CHOOSE y \in occ : TRUE
         IN  ExactAdd(ExactSumOver(occ \ {x}, q), q[x])

ExactLeafSum(trees, id) ==
    LET occ == LeafOccurrences(trees, id)
    IN  ExactSumOver(occ, [o \in occ |-> NodeAt(trees[o[1]], o[2]).Quantity])

\* floor(a + 1/2)
HalfUp(a) == <<(2 * a[1] + a[2]) \div (2 * a[2]), 1>>

C24_HalfUpOfExactSum == [id \in Items |-> HalfUp(ExactLeafSum(bom, id))]

C24_AsClaimed ==
    /\ pc = "done" => TotalsAre(leafTotals, bom, C24_HalfUpOfExactSum)
    /\ pc = "walked" => TotalsAre(walkTotals, bom, C24_HalfUpOfExactSum)

(***************************************************************************)
(* C25: the grouper tells a failed contact lookup from a missing mapping.  *)
(* A request ends with "no contact mapping found for item X" only when     *)
(* item X has no row in items_contacts.                                    *)
(***************************************************************************)
C25_AsClaimed ==
    \A r \in Runs : \A itemID \in Items :
        GroupingFailedFor(r, itemID) => itemsContacts[itemID] = <<>>

(***************************************************************************)
(* C26: line descriptions are best-effort.  Every order issued has one     *)
(* line per item of its group, described by the catalogue name when the    *)
(* name lookup succeeds with a non-empty name and by the item code         *)
(* otherwise.  No request ends because of a name lookup: the messages a    *)
(* request ends with are those of the read, the grouping, the contact      *)
(* lookup, the order creation and the mark; a request whose lines fell     *)
(* back to the item code issues its orders and marks its records.          *)
(***************************************************************************)
NameKnown(code) ==
    /\ <<"getItem", code>> \notin down
    /\ code \in xeroItems
    /\ code \notin unnamed

Described(code) == IF NameKnown(code) THEN ItemName(code) ELSE code

C26_Step ==
    \A po \in purchaseOrders' \ purchaseOrders :
        LET items == run[po.Run].grouped[po.Contact]
        IN  /\ run[po.Run].pc = "grouped"
            /\ Cardinality(po.Items) = Cardinality(items)
            /\ \A it \in items :
                  POItem(it.ItemID, it.Quantity, Described(it.ItemID)) \in po.Items

C26_Endings ==
    \A r \in Runs :
        run[r].pc = "done"
           => \/ run[r].msg \in {MsgReadFailed, MsgNoUnordered, MsgMarkFailed}
              \/ \E itemID \in Items : run[r].msg = MsgGroupFailed(GroupErr(itemID))
              \/ OrderFailure(run[r].msg)
              \/ \E c \in 0..MaxRecords, m \in 0..MaxRecords : run[r].msg = MsgCreated(c, m)

C26_BestEffortDescriptions == [][C26_Step]_vars /\ []C26_Endings

\* the name lookup of A fails and C has an empty name: a request ordered both
\* under their item codes and marked both records
C26_Witness ==
    /\ down = {<<"getItem", "A">>}
    /\ unnamed = {"C"}
    /\ \E r \in Runs :
          /\ run[r].msg = MsgCreated(2, 2)
          /\ \E po \in OrdersOf(r) : \E ln \in po.Items :
                ln.ItemCode = "A" /\ ln.Description = "A"
          /\ \E po \in OrdersOf(r) : \E ln \in po.Items :
                ln.ItemCode = "C" /\ ln.Description = "C"
    /\ Len(shoppingList) = 2
    /\ \A i \in 1..2 : shoppingList[i].ordered

(***************************************************************************)
(* ResolveInvoiceBOM step by step: one step per collaborator lookup, so    *)
(* that two calls interleave at their lookups                              *)
(***************************************************************************)
Top(c) == calls[c].stack[Len(calls[c].stack)]

AtLookup(c, at) == calls[c].pc = "run" /\ calls[c].stack # <<>> /\ Top(c).at = at

setTop(c, f) == [calls[c].stack EXCEPT ![Len(calls[c].stack)] = f]

\* the frames that have set visiting[k] and deferred its delete
Entered(st) == {st[j].id : j \in {x \in 1..Len(st) : st[x].at # "enter"}}

\* a frame returns a message or an error: every frame above it returns it too,
\* running its deferred delete, and so does the call
failed(c, entered, msg, e) ==
    [calls[c] EXCEPT !.pc = "done", !.stack = <<>>, !.out = <<>>,
                     !.visiting = (@ \cup entered) \ (Entered(calls[c].stack) \cup entered),
                     !.bom = <<>>, !.errMsg = msg, !.err = e]

\* the top frame returns node: its deferred delete runs, and the node goes to
\* the loop of the frame below, or to the loop over the roots
returned(c, node) ==
    LET st == calls[c].stack
        n == Len(st)
        rest == SubSeq(st, 1, n - 1)
    IN  IF n = 1
        THEN [calls[c] EXCEPT !.stack = <<>>, !.visiting = @ \ {st[n].id},
                              !.out = Append(@, node), !.i = @ + 1]
        ELSE [calls[c] EXCEPT
                 !.visiting = @ \ {st[n].id},
                 !.stack = [rest EXCEPT ![n - 1] =
                               [@ EXCEPT !.node.Children = Append(@, node), !.k = @ + 1]]]

StartCall(c) ==
    /\ calls[c].pc = "idle"
    /\ calls' = [calls EXCEPT ![c] =
          [IdleCall EXCEPT !.pc = "run", !.snap = itemsContacts,
                           !.mid = \E d \in Calls : calls[d].visiting # {}]]
    /\ UNCHANGED <<dbVars, oauthVars, bomVars, groupVars>>

\* the loop over the roots: the call of dfs for the next root, or the return
RootStep(c) ==
    /\ calls[c].pc = "run"
    /\ calls[c].stack = <<>>
    /\ calls' = [calls EXCEPT ![c] =
          IF calls[c].i > Len(roots)
          THEN [@ EXCEPT !.pc = "done", !.bom = calls[c].out, !.out = <<>>]
          ELSE LET rt == roots[calls[c].i]
               IN  [@ EXCEPT !.stack = <<Frame(rt.PartID, rt.Name, rt.Quantity, 1)>>]]
    /\ UNCHANGED <<dbVars, oauthVars, bomVars, groupVars>>

\* a dfs whose cycle guard looks at one visiting map shared by all calls
EnterStepShared(c) ==
    /\ AtLookup(c, "enter")
    /\ LET f == Top(c)
           it == itemLookup(f.id)
       IN  calls' = [calls EXCEPT ![c] =
              IF depthExceeded(f.depth, maxDepth)
              THEN failed(c, {}, maxDepthMsg(f.id), NoErr)
              ELSE IF onPath(UNION {calls[d].visiting : d \in Calls}, f.id)
              THEN failed(c, {}, MsgCircular(f.id), NoErr)
              ELSE IF it.err # NoErr
              THEN failed(c, {f.id}, NoMsg, it.err)
              ELSE IF ~it.exists
              THEN failed(c, {f.id}, notFoundMsg(f.id), NoErr)
              ELSE [@ EXCEPT !.visiting = @ \cup {f.id},
                             !.stack = setTop(c, [f EXCEPT
                                 !.at = "hasContact",
                                 !.name = IF @ = "" THEN it.name ELSE @])]]
    /\ UNCHANGED <<dbVars, oauthVars, bomVars, groupVars>>

\* dfs from its entry to the return of getItem
EnterStep(c) ==
    /\ AtLookup(c, "enter")
    /\ LET f == Top(c)
           it == itemLookup(f.id)
       IN  calls' = [calls EXCEPT ![c] =
              IF depthExceeded(f.depth, maxDepth)
              THEN failed(c, {}, maxDepthMsg(f.id), NoErr)
              ELSE IF onPath(calls[c].visiting, f.id)
              THEN failed(c, {}, MsgCircular(f.id), NoErr)
              ELSE IF it.err # NoErr
              THEN failed(c, {f.id}, NoMsg, it.err)
              ELSE IF ~it.exists
              THEN failed(c, {f.id}, notFoundMsg(f.id), NoErr)
              ELSE [@ EXCEPT !.visiting = @ \cup {f.id},
                             !.stack = setTop(c, [f EXCEPT
                                 !.at = "hasContact",
                                 !.name = IF @ = "" THEN it.name ELSE @])]]
    /\ UNCHANGED <<dbVars, oauthVars, bomVars, groupVars>>

\* dfs at the return of hasContact
HasContactStep(c) ==
    /\ AtLookup(c, "hasContact")
    /\ LET f == Top(c)
           okContact == hasContact(f.id)
       IN  calls' = [calls EXCEPT ![c] =
              IF okContact.err # NoErr
              THEN failed(c, {}, NoMsg, okContact.err)
              ELSE IF okContact.ok
              THEN returned(c, BOMNode(f.id, f.name, f.qty, FALSE, <<>>))
              ELSE [@ EXCEPT !.stack = setTop(c, [f EXCEPT !.at = "getChildren"])]]
    /\ UNCHANGED <<dbVars, oauthVars, bomVars, groupVars>>

\* dfs at the return of getChildren
GetChildrenStep(c) ==
    /\ AtLookup(c, "getChildren")
    /\ LET f == Top(c)
           children == getChildren(f.id)
       IN  calls' = [calls EXCEPT ![c] =
              IF children.err # NoErr
              THEN failed(c, {}, NoMsg, children.err)
              ELSE IF Len(children.pairs) = 0
              THEN failed(c, {}, noSourceMsg(f.id), NoErr)
              ELSE [@ EXCEPT !.stack = setTop(c, [f EXCEPT
                       !.at = "loop", !.pairs = children.pairs, !.k = 1,
                       !.node = BOMNode(f.id, f.name, f.qty, TRUE, <<>>)])]]
    /\ UNCHANGED <<dbVars, oauthVars, bomVars, groupVars>>

\* the loop over the children: the call of dfs for the next child, or the
\* return of the assembly
LoopStep(c) ==
    /\ AtLookup(c, "loop")
    /\ LET f == Top(c)
       IN  calls' = [calls EXCEPT ![c] =
              IF f.k > Len(f.pairs)
              THEN returned(c, f.node)
              ELSE [@ EXCEPT !.stack =
                       Append(@, Frame(f.pairs[f.k][1], "",
                                       childQuantity(f.qty, f.pairs[f.k][2]),
                                       f.depth + 1))]]
    /\ UNCHANGED <<dbVars, oauthVars, bomVars, groupVars>>

\* the steps of a call that has started
RunStep(c) ==
    \/ RootStep(c)
    \/ EnterStep(c)
    \/ HasContactStep(c)
    \/ GetChildrenStep(c)
    \/ LoopStep(c)

CallStep(c) == StartCall(c) \/ RunStep(c)

\* a purchase mapping is given to an item while no call is running
AddMapping(id) ==
    /\ \A c \in Calls : calls[c].pc # "run"
    /\ itemsContacts[id] = <<>>
    /\ id \in xeroItems
    /\ itemsContacts' = [itemsContacts EXCEPT ![id] = <<"C-AAA">>]
    /\ UNCHANGED <<xeroItems, parentChild, down, revision, lines, unnamed, bomVars, oauthVars,
                   groupVars, calls>>

(***************************************************************************)
(* SpecConc: two calls with the same roots and maxDepth over every         *)
(* component graph of at most MaxEdges edges below the root A, cycles      *)
(* included, with maxDepth 2 or 3.                                         *)
(***************************************************************************)
InitConc ==
    /\ xeroItems \in SUBSET Items
    /\ itemsContacts \in [Items -> {<<>>, <<"C-AAA">>}]
    /\ parentChild \in [Items -> {rs \in ChildRows({1}) : RowsOK(rs)}]
    /\ EdgeCount(parentChild) <= MaxEdges
    /\ \A i \in Items \ xeroItems : itemsContacts[i] = <<>> /\ parentChild[i] = <<>>
    /\ down \in {{}, {<<"getChildren", "B">>}}
    /\ revision = "xero"
    /\ lines = <<>>
    /\ unnamed = {}
    /\ roots \in {<<RootItem("A", R(2))>>, <<RootItem("A", R(2)), RootItem("A", R(2))>>}
    /\ xeroItems \subseteq Reachable(parentChild, roots)
    /\ maxDepth \in {2, 3}
    /\ InitResults
    /\ InitGroupIdle

NextConc == (\E c \in Calls : CallStep(c)) \/ (\E id \in {"B"} : AddMapping(id))

SpecConc == InitConc /\ [][NextConc]_vars

(***************************************************************************)
(* C27: resolutions are independent and deterministic.  A call that ends   *)
(* on the items_contacts table it started on returns what                  *)
(* ResolveInvoiceBOM(roots, maxDepth) returns over that table, however its *)
(* lookups interleave with those of the other call, so two calls over the  *)
(* same snapshot return the same trees, message and error; a call that     *)
(* ends has an empty visiting map; no step of a call changes a             *)
(* collaborator table.                                                     *)
(***************************************************************************)
Outcome(c) == <<calls[c].bom, calls[c].errMsg, calls[c].err>>

AtomicOutcome ==
    <<ResolveInvoiceBOM(roots, maxDepth).bom, ResolveInvoiceBOM(roots, maxDepth).errMsg,
      ResolveInvoiceBOM(roots, maxDepth).err>>

C27_Outcomes ==
    /\ \A c \in Calls :
          calls[c].pc = "done"
             => /\ calls[c].visiting = {}
                /\ calls[c].snap = itemsContacts => Outcome(c) = AtomicOutcome
    /\ \A c, d \in Calls :
          (calls[c].pc = "done" /\ calls[d].pc = "done" /\ calls[c].snap = calls[d].snap)
             => Outcome(c) = Outcome(d)

C27_CallStep ==
    (\E c \in Calls : calls'[c] # calls[c])
       => UNCHANGED <<xeroItems, itemsContacts, parentChild, unnamed>>

C27_IndependentCalls == []C27_Outcomes /\ [][C27_CallStep]_vars

\* call 2 started while call 1 was inside dfs; both have ended on the table
\* they started on and returned the same two trees
C27_Witness ==
    /\ \A c \in Calls : calls[c].pc = "done" /\ calls[c].snap = itemsContacts
    /\ calls[2].mid
    /\ calls[1].errMsg = NoMsg /\ calls[1].err = NoErr
    /\ Len(calls[1].bom) = 2
    /\ calls[1].bom[1].IsAssembly
    /\ calls[1].bom = calls[2].bom

(***************************************************************************)
(* FairTerm: one call over every component graph of at most MaxEdges edges *)
(* (cycles and self references included), every choice of catalogue and    *)
(* purchase mappings, one or two roots and maxDepth 1..MaxDepthArg; every   *)
(* lookup returns, so a call that has started keeps taking steps.          *)
(***************************************************************************)
InitTerm ==
    /\ xeroItems \in SUBSET Items
    /\ itemsContacts \in [Items -> {<<>>, <<"C-AAA">>}]
    /\ parentChild \in [Items -> {rs \in ChildRows({1}) : RowsOK(rs)}]
    /\ EdgeCount(parentChild) <= MaxEdges
    /\ \A i \in Items \ xeroItems : itemsContacts[i] = <<>> /\ parentChild[i] = <<>>
    /\ down \in {{}, {<<"getChildren", "B">>}}
    /\ revision = "xero"
    /\ lines = <<>>
    /\ unnamed = {}
    /\ roots \in {<<RootItem("A", R(2))>>, <<RootItem("A", R(2)), RootItem("B", R(2))>>}
    /\ xeroItems \subseteq Reachable(parentChild, roots)
    /\ maxDepth \in 1..MaxDepthArg
    /\ InitResults
    /\ InitGroupIdle

NextTerm == CallStep(1)

FairTerm == InitTerm /\ [][NextTerm]_vars /\ WF_vars(RunStep(1))

(***************************************************************************)
(* C28: ResolveInvoiceBOM terminates.  Provided each lookup returns, a     *)
(* call that has started ends, on cyclic and self-referential graphs too;  *)
(* its recursion is never more than maxDepth + 1 frames deep; it ends with *)
(* one tree per root, or with no tree and a message, or with no tree and   *)
(* an error.                                                               *)
(***************************************************************************)
C28_Depth == \A c \in Calls : Len(calls[c].stack) <= maxDepth + 1

C28_Ending ==
    \A c \in Calls :
        calls[c].pc = "done"
           => /\ calls[c].stack = <<>>
              /\ \/ /\ Len(calls[c].bom) = Len(roots)
                    /\ calls[c].errMsg = NoMsg /\ calls[c].err = NoErr
                 \/ /\ calls[c].bom = <<>>
                    /\ calls[c].errMsg # NoMsg /\ calls[c].err = NoErr
                 \/ /\ calls[c].bom = <<>>
                    /\ calls[c].errMsg = NoMsg /\ calls[c].err # NoErr

C28_Terminates ==
    /\ []C28_Depth
    /\ []C28_Ending
    /\ (calls[1].pc = "run") ~> (calls[1].pc = "done")

\* the call on the cycle A -> B -> A with maxDepth 1 is maxDepth + 1 frames deep
C28_Witness ==
    /\ maxDepth = 1
    /\ parentChild["A"] = << <<"B", 1>> >>
    /\ parentChild["B"] = << <<"A", 1>> >>
    /\ calls[1].pc = "run"
    /\ Len(calls[1].stack) = 2
    /\ calls[1].visiting = {"A"}

(***************************************************************************)
(* C29: no demand is ordered twice.  Over any interleaving of requests,    *)
(* each shopping_list record is on the lines of at most one purchase order *)
(* that was issued.                                                        *)
(***************************************************************************)
OrdersWith(listID) == {po \in purchaseOrders : listID \in po.ListIDs}

C29_AsClaimed ==
    \A listID \in 1..Len(shoppingList) : Cardinality(OrdersWith(listID)) <= 1

(***************************************************************************)
(* OAuth states (oauth_state.go).  xeroConnectHandler stores a state with  *)
(* its owner and an expiry in epoch seconds; xeroCallbackHandler consumes  *)
(* it.  ConsumeOAuthState reads the time and then runs one statement,      *)
(* DELETE ... WHERE state = $1 AND expires_at > $2 RETURNING owner_id,     *)
(* which the database runs atomically: of two statements that match the    *)
(* same row the second waits for the first and then finds no row.          *)
(***************************************************************************)
MaxClock == 2

MaxCreates == 2

\* the ttlSeconds given to CreateOAuthState
OAuthTTLs == {0, 1}

\* the row the DELETE of ConsumeOAuthState returns (NoRow when it matches
\* none) and the table it leaves
deleteReturningSelect(table, state, nowEpoch) ==
    IF table[state].present /\ table[state].expires_at > nowEpoch
    THEN <<table[state], table>>
    ELSE <<NoRow, table>>

deleteReturning(table, state, nowEpoch) ==
    IF table[state].present /\ table[state].expires_at > nowEpoch
    THEN <<table[state], [table EXCEPT ![state] = NoRow]>>
    ELSE <<NoRow, table>>

\* INSERT ... ON CONFLICT (state) DO UPDATE: the row of the state is replaced
CreateOAuthState(state, ownerID, ttlSeconds) ==
    /\ stored[state] < MaxCreates
    /\ oauthStates' = [oauthStates EXCEPT ![state] =
                          [owner_id |-> ownerID, expires_at |-> clock + ttlSeconds,
                           created_at |-> clock, present |-> TRUE]]
    /\ stored' = [stored EXCEPT ![state] = @ + 1]
    /\ finds' = [finds EXCEPT ![state] = 0]
    /\ UNCHANGED <<dbVars, bomVars, groupVars, calls, clock, consume>>

\* nowEpoch := time.Now().Unix()
ConsumeNow(c, state) ==
    /\ consume[c].pc = "idle"
    /\ consume' = [consume EXCEPT ![c] =
                      [pc |-> "delete", state |-> state, nowEpoch |-> clock,
                       mid |-> \E d \in Runs \ {c} : /\ consume[d].pc = "delete"
                                                     /\ consume[d].state = state,
                       ret |-> NoReturn]]
    /\ UNCHANGED <<dbVars, bomVars, groupVars, calls, oauthStates, stored, clock, finds>>

Returned(c, hit, fails) ==
    [ownerID |-> IF fails THEN "" ELSE hit.owner_id,
     found |-> ~fails /\ hit.present, err |-> fails,
     row |-> oauthStates[consume[c].state], stored |-> stored[consume[c].state],
     finds |-> finds[consume[c].state], done |-> TRUE]

\* the statement and the return; a statement that fails (connection, query)
\* leaves the table as it is and returns the error
ConsumeOAuthState(c) ==
    /\ consume[c].pc = "delete"
    /\ \E fails \in BOOLEAN :
          /\ oauthStates' = IF fails THEN oauthStates
                            ELSE deleteReturning(oauthStates, consume[c].state,
                                                 consume[c].nowEpoch)[2]
          /\ consume' = [consume EXCEPT ![c].pc = "idle", ![c].ret =
                 Returned(c, deleteReturning(oauthStates, consume[c].state,
                                             consume[c].nowEpoch)[1], fails)]
          /\ finds' = IF consume'[c].ret.found
                      THEN [finds EXCEPT ![consume[c].state] = Min(@ + 1, 2)]
                      ELSE finds
    /\ UNCHANGED <<dbVars, bomVars, groupVars, calls, stored, clock>>

\* a second passes
Tick ==
    /\ clock < MaxClock
    /\ clock' = clock + 1
    /\ UNCHANGED <<dbVars, bomVars, groupVars, calls, oauthStates, stored, consume, finds>>

InitOAuth ==
    /\ xeroItems = {}
    /\ itemsContacts = [i \in Items |-> <<>>]
    /\ parentChild = [i \in Items |-> <<>>]
    /\ down = {}
    /\ revision = "xero"
    /\ lines = <<>>
    /\ unnamed = {}
    /\ roots = <<>>
    /\ maxDepth = DefaultMaxDepth
    /\ InitResults
    /\ InitGroupIdle

NextOAuth ==
    \/ \E ownerID \in {"u1", "u2"}, ttlSeconds \in OAuthTTLs :
          CreateOAuthState("s1", ownerID, ttlSeconds)
    \/ \E c \in Runs, state \in OAuthStates : ConsumeNow(c, state)
    \/ \E c \in Runs : ConsumeOAuthState(c)
    \/ Tick

SpecOAuth == InitOAuth /\ [][NextOAuth]_vars

(***************************************************************************)
(* C30: an OAuth state is one-time use.  Of the ConsumeOAuthState calls    *)
(* for a state that CreateOAuthState stored, at most one returns found     *)
(* with the owner id of the row, also when two calls for the state run at  *)
(* the same time; a call whose statement runs after that one, a call whose *)
(* nowEpoch is at or after the row's expires_at, and a call for a state    *)
(* that was never stored all return found = false.                         *)
(***************************************************************************)
C30_AtMostOnce == \A s \in OAuthStates : finds[s] <= 1

C30_Return(ret, nowEpoch) ==
    /\ ret.found => /\ ret.finds = 0
                    /\ ret.stored > 0
                    /\ ret.row.present
                    /\ ret.ownerID = ret.row.owner_id
                    /\ ret.ownerID # ""
                    /\ nowEpoch < ret.row.expires_at
                    /\ ~ret.err
    /\ ret.done /\ ret.finds > 0 => ~ret.found
    /\ ret.done /\ ret.row.present /\ nowEpoch >= ret.row.expires_at => ~ret.found
    /\ ret.done /\ ret.stored = 0 => ~ret.found /\ ret.ownerID = ""

C30_OneTimeUse ==
    /\ C30_AtMostOnce
    /\ \A c \in Runs : C30_Return(consume[c].ret, consume[c].nowEpoch)

\* two calls for the same storing of a state had both read the time (before
\* the expiry) when the first ran its statement: the first found the row,
\* the second returned found = false without an error
C30_Witness ==
    \E c, d \in Runs :
        /\ c # d /\ consume[c].state = consume[d].state
        /\ consume[c].ret.found
        /\ consume[d].ret.done /\ ~consume[d].ret.found /\ ~consume[d].ret.err
        /\ consume[c].mid \/ consume[d].mid
        /\ consume[d].ret.stored = consume[c].ret.stored
        /\ consume[d].ret.finds = 1
        /\ consume[d].nowEpoch < consume[c].ret.row.expires_at

====
